---- MODULE Spec2Model ----
(***************************************************************************)
(* Model of the impression/affection plugin: the AFTER_LLM event handler   *)
(* (src/plugin.py), the weight service with its bounded in-memory history  *)
(* (src/services/weight_service.py), the text impression service           *)
(* (src/services/text_impression_service.py), the message service          *)
(* (src/services/message_service.py) and the three peewee tables           *)
(* (src/models).                                                           *)
(*                                                                         *)
(* Conventions.  Weight scores are floats in the code and integers here.   *)
(* Affection scores are kept in tenths of a point (50.0 is 500).  A        *)
(* classifier reply is a record of the features the parsers look at.       *)
(* `now` is the millisecond wall clock: handle turns it into message ids   *)
(* and the tables' timestamps are read from it.  The timestamp of a        *)
(* history entry is the rank of its datetime.now() reading among the       *)
(* readings taken for that user (readings are strictly increasing, and     *)
(* the code compares timestamps only within one user's list).              *)
(***************************************************************************)
EXTENDS Integers, Sequences, FiniteSets, TLC

VARIABLES
    filter_mode,      \* WeightService.filter_mode, static configuration
    now,              \* int(time.time() * 1000)
    deliveries,       \* history variable: deliveries that passed the dedup check
    message_weights,  \* WeightService.message_weights: user -> list of records
    appended,         \* history variable: every entry ever appended, per user
    records,          \* table impression_message_records: sequence of rows
    impressions,      \* table user_impressions: user -> row or NoRow
    states,           \* table user_message_state: user -> row or NoRow
    pc,               \* per delivery: where its coroutine is suspended
    loc               \* per delivery: the local variables of handle

vars == <<filter_mode, now, deliveries, message_weights, appended, records,
          impressions, states, pc, loc>>

----------------------------------------------------------------------------
(* Bounds of the model *)

MaxTime == 2
MaxDeliveries == 2
NumProcs == 2
MaxAppends == 150
MaxEvalCalls == 2
MaxFilterAppends == 40
MaxMergeCalls == 3

Users == {"u1", "u2"}
Procs == 1..NumProcs
MessageIds == 1..MaxTime
Contents == {"ok", "I love reading sci-fi novels"}

(* Program constants *)

high_threshold == 70
medium_threshold == 40
HistoryCap == 100
ContextLimit == 10
DefaultLongLen == 20

FilterModes == {"disabled", "selective", "balanced"}

ContentLen(message) == IF message = "ok" THEN 2
                       ELSE IF message = "" THEN 0 ELSE 28

----------------------------------------------------------------------------
(* Sequence helpers *)

\* list[-n:]
LastN(s, n) == IF Len(s) <= n THEN s ELSE SubSeq(s, Len(s) - n + 1, Len(s))

\* list[:n]
FirstN(s, n) == IF Len(s) <= n THEN s ELSE SubSeq(s, 1, n)

RECURSIVE InsertDesc(_, _)
\* insert r into a list sorted by timestamp descending, after every entry with
\* a timestamp >= its own (stable)
InsertDesc(sorted, r) ==
    IF sorted = <<>> THEN <<r>>
    ELSE IF Head(sorted).timestamp >= r.timestamp
         THEN <<Head(sorted)>> \o InsertDesc(Tail(sorted), r)
         ELSE <<r>> \o sorted

RECURSIVE SortByTimestampDesc(_)
\* list.sort(key=timestamp, reverse=True): stable, newest first
SortByTimestampDesc(s) ==
    IF s = <<>> THEN <<>>
    ELSE InsertDesc(SortByTimestampDesc(SubSeq(s, 1, Len(s) - 1)), s[Len(s)])

----------------------------------------------------------------------------
(* LLMClient.generate as seen by the services: (success, content).  The     *)
(* content of a weight reply is described by what _parse_weight_response    *)
(* reads: its length, the WEIGHT_SCORE / WEIGHT_LEVEL key-value tokens and  *)
(* the outermost {...} fragment.                                            *)

Absent == [kind |-> "absent", val |-> 0, level |-> ""]
Number(n, l) == [kind |-> "number", val |-> n, level |-> l]
\* a JSON object whose weight_score is a string that float() rejects
Text(l) == [kind |-> "text", val |-> 0, level |-> l]
\* WEIGHT_SCORE: followed by digits and dots that float() rejects ("1.2.3")
Malformed(l) == [kind |-> "malformed", val |-> 0, level |-> l]

WeightReply(ok, short, kv, json) ==
    [success |-> ok, short |-> short, kv |-> kv, json |-> json]

WeightReplies ==
    { WeightReply(FALSE, FALSE, Absent, Absent),            \* transport failure
      WeightReply(TRUE, FALSE, Number(75, "high"), Absent), \* WEIGHT_SCORE: 75;WEIGHT_LEVEL: high
      WeightReply(TRUE, FALSE, Absent, Text("high")) }      \* {"weight_score": "high"}

NoResult == [found |-> FALSE, weight_score |-> Absent, weight_level |-> ""]

\* _parse_weight_response: None, or the dict with weight_score / weight_level
_parse_weight_response(content) ==
    IF content.short THEN NoResult
    ELSE IF content.kv.kind = "number"
         THEN [found |-> TRUE, weight_score |-> content.kv,
               weight_level |-> content.kv.level]
    ELSE IF content.kv.kind = "malformed"
         \* lines 110-113: float() raises, the score becomes 0.0
         THEN [found |-> TRUE, weight_score |-> Number(0, content.kv.level),
               weight_level |-> content.kv.level]
    ELSE IF content.json.kind \in {"number", "text"}
         THEN [found |-> TRUE, weight_score |-> content.json,
               weight_level |-> content.json.level]
    ELSE NoResult

WeightRecord(message_id, weight_score, weight_level, timestamp, message) ==
    [message_id |-> message_id, weight_score |-> weight_score,
     weight_level |-> weight_level, timestamp |-> timestamp,
     message |-> message]

\* _save_weight with the history cut from the wrong end
_save_weight_keep_oldest(weights, user_id, message_id, message, weight_score, weight_level, timestamp) ==
    LET grown == Append(weights[user_id],
                        WeightRecord(message_id, weight_score, weight_level,
                                     timestamp, message))
    IN [weights EXCEPT ![user_id] =
            IF Len(grown) > HistoryCap THEN FirstN(grown, HistoryCap) ELSE grown]

\* _save_weight without the cap
_save_weight_uncapped(weights, user_id, message_id, message, weight_score, weight_level, timestamp) ==
    [weights EXCEPT ![user_id] =
        Append(weights[user_id],
               WeightRecord(message_id, weight_score, weight_level,
                            timestamp, message))]

\* _save_weight: append, then keep the last 100 entries
_save_weight(weights, user_id, message_id, message, weight_score, weight_level, timestamp) ==
    LET grown == Append(weights[user_id],
                        WeightRecord(message_id, weight_score, weight_level,
                                     timestamp, message))
    IN [weights EXCEPT ![user_id] =
            IF Len(grown) > HistoryCap THEN LastN(grown, HistoryCap) ELSE grown]

EvalResult(weights, ok, score, level, saved) ==
    [weights |-> weights, ok |-> ok, score |-> score, level |-> level,
     saved |-> saved]

\* _save_default_weight that returns the default without saving it
_save_default_weight_unsaved(weights, user_id, message_id, message, timestamp) ==
    LET weight_score == IF ContentLen(message) > DefaultLongLen THEN 50 ELSE 20
        weight_level == IF ContentLen(message) > DefaultLongLen
                        THEN "medium" ELSE "low"
    IN EvalResult(weights, TRUE, weight_score, weight_level, FALSE)

\* _save_default_weight: 50/medium for a message longer than 20 characters,
\* 20/low otherwise
_save_default_weight(weights, user_id, message_id, message, timestamp) ==
    LET weight_score == IF ContentLen(message) > DefaultLongLen THEN 50 ELSE 20
        weight_level == IF ContentLen(message) > DefaultLongLen
                        THEN "medium" ELSE "low"
    IN EvalResult(_save_weight(weights, user_id, message_id, message,
                               weight_score, weight_level, timestamp),
                  TRUE, weight_score, weight_level, TRUE)

\* evaluate_message without the lookup of lines 43-47
CachedIndex_never(weights, user_id, message_id) == 0

\* evaluate_message, lines 43-47: the index of the cached record, or 0
CachedIndex(weights, user_id, message_id) ==
    LET hits == {i \in 1..Len(weights[user_id]) :
                    weights[user_id][i].message_id = message_id}
    IN IF hits = {} THEN 0 ELSE CHOOSE i \in hits : \A j \in hits : i <= j

\* evaluate_message, lines 55-75: from the classifier's reply to the result
evaluate_message_reply(weights, user_id, message_id, message, reply, timestamp) ==
    IF ~reply.success
    THEN _save_default_weight(weights, user_id, message_id, message, timestamp)
    ELSE LET result == _parse_weight_response(reply)
         IN IF ~result.found
            THEN _save_default_weight(weights, user_id, message_id, message,
                                      timestamp)
            ELSE IF result.weight_score.kind = "text"
                 \* float() raises, the except clause returns the failure
                 THEN EvalResult(weights, FALSE, 0, "evaluation failed", FALSE)
                 ELSE EvalResult(
                        _save_weight(weights, user_id, message_id, message,
                                     result.weight_score.val,
                                     result.weight_level, timestamp),
                        TRUE, result.weight_score.val, result.weight_level,
                        TRUE)

\* lines 192-199 with the medium threshold used for selective as well
Qualifies_selective_uses_medium(mode, weight_score) ==
    IF mode \in {"selective", "balanced"}
    THEN weight_score >= medium_threshold
    ELSE TRUE

\* the admission rule of get_filtered_messages, lines 192-199
Qualifies(mode, weight_score) ==
    IF mode = "selective" THEN weight_score >= high_threshold
    ELSE IF mode = "balanced" THEN weight_score >= medium_threshold
    ELSE TRUE

\* get_filtered_messages without the early return of lines 181-182
get_filtered_messages_ignores_disabled(weights, mode, user_id, limit) ==
    LET Keep(r) == Qualifies(mode, r.weight_score)
        filtered == FirstN(SortByTimestampDesc(
                               SelectSeq(weights[user_id], Keep)), limit)
    IN [i \in 1..Len(filtered) |-> filtered[i].message_id]

\* get_filtered_messages: the ids of the records that build the context,
\* newest first, at most `limit` (the context string lists the same records)
get_filtered_messages(weights, mode, user_id, limit) ==
    IF mode = "disabled" THEN <<>>
    ELSE LET Keep(r) == Qualifies(mode, r.weight_score)
             filtered == FirstN(SortByTimestampDesc(
                                    SelectSeq(weights[user_id], Keep)), limit)
         IN [i \in 1..Len(filtered) |-> filtered[i].message_id]

\* lines 163-179 with the mode and the thresholds ignored
ShouldUpdateImpression_ignores_mode(mode, weight_success, weight_score) ==
    weight_success

\* lines 163-179 with > in place of >=
ShouldUpdateImpression_strict(mode, weight_success, weight_score) ==
    IF ~weight_success THEN FALSE
    ELSE IF mode = "disabled" THEN TRUE
    ELSE IF mode = "selective" THEN weight_score > high_threshold
    ELSE IF mode = "balanced" THEN weight_score > medium_threshold
    ELSE FALSE

\* handle, lines 163-179
ShouldUpdateImpression(mode, weight_success, weight_score) ==
    IF ~weight_success THEN FALSE
    ELSE IF mode = "disabled" THEN TRUE
    ELSE IF mode = "selective" THEN weight_score >= high_threshold
    ELSE IF mode = "balanced" THEN weight_score >= medium_threshold
    ELSE FALSE

----------------------------------------------------------------------------
(* Table impression_message_records and the dedup operations of            *)
(* MessageService.  The table is the sequence of its rows; the composite   *)
(* unique index on (user_id, message_id) is checked by the insert.         *)

RecordRow(user_id, message_id) == [user_id |-> user_id, message_id |-> message_id]

\* how many rows the table holds for the pair
PairCount(rows, user_id, message_id) ==
    Cardinality({i \in 1..Len(rows) :
                    rows[i] = RecordRow(user_id, message_id)})

\* the query with the message_id condition left out
Existing_any_message(rows, user_id, message_id) ==
    \E i \in 1..Len(rows) : rows[i].user_id = user_id

\* select().where(user_id == ..., message_id == ...).first() is not None
Existing(rows, user_id, message_id) ==
    \E i \in 1..Len(rows) : rows[i] = RecordRow(user_id, message_id)

\* an insert into a table that has no unique index
Create_without_unique_index(rows, user_id, message_id) ==
    [rows |-> Append(rows, RecordRow(user_id, message_id)), raised |-> FALSE]

\* ImpressionMessageRecord.create: the unique index makes the insert of an
\* existing pair raise IntegrityError and leaves the table as it was
Create(rows, user_id, message_id) ==
    IF Existing(rows, user_id, message_id)
    THEN [rows |-> rows, raised |-> TRUE]
    ELSE [rows |-> Append(rows, RecordRow(user_id, message_id)),
          raised |-> FALSE]

\* record_processed_message, lines 70-81: the insert and the except clause
record_insert(rows, user_id, message_id) ==
    LET made == Create(rows, user_id, message_id)
    IN [rows |-> made.rows, ret |-> ~made.raised]

\* record_processed_message run without interruption
record_processed_message(rows, user_id, message_id) ==
    IF Existing(rows, user_id, message_id)
    THEN [rows |-> rows, ret |-> FALSE]
    ELSE record_insert(rows, user_id, message_id)

\* is_message_processed whose query fails: the except clause answers False
is_message_processed_query_fails(rows, user_id, message_id) == FALSE

\* is_message_processed
is_message_processed(rows, user_id, message_id) ==
    Existing(rows, user_id, message_id)

RECURSIVE record_all(_, _, _)
\* handle, lines 218-219: record every context message id
record_all(rows, user_id, ids) ==
    IF ids = <<>> THEN rows
    ELSE record_all(record_processed_message(rows, user_id, Head(ids)).rows,
                    user_id, Tail(ids))

----------------------------------------------------------------------------
(* Table user_message_state and MessageService.update_message_state *)

NewState ==
    [last_message_id |-> 0, last_message_time |-> 0,
     impression_update_count |-> 0, affection_update_count |-> 0,
     total_messages |-> 0, processed_messages |-> 0]

\* get_or_create: the row of the user, created with the defaults if missing
GetOrCreate(table, user_id, defaults) ==
    IF user_id \in DOMAIN table THEN table[user_id] ELSE defaults

\* a save without its where clause: the row is written for every user
Put_every_row(table, user_id, row) ==
    [u \in DOMAIN table \cup {user_id} |-> row]

Put(table, user_id, row) ==
    [u \in DOMAIN table \cup {user_id} |->
        IF u = user_id THEN row ELSE table[u]]

\* update_message_state that counts an impression update for every message
update_message_state_counts_always(table, user_id, message_id, impression_updated, affection_updated, timestamp) ==
    LET state == GetOrCreate(table, user_id, NewState)
    IN Put(table, user_id,
           [state EXCEPT
              !.last_message_id = message_id,
              !.last_message_time = timestamp,
              !.total_messages = @ + 1,
              !.processed_messages = @ + 1,
              !.impression_update_count = @ + 1,
              !.affection_update_count =
                  IF affection_updated THEN @ + 1 ELSE @])

\* update_message_state that leaves processed_messages as it is
update_message_state_total_only(table, user_id, message_id, impression_updated, affection_updated, timestamp) ==
    LET state == GetOrCreate(table, user_id, NewState)
    IN Put(table, user_id,
           [state EXCEPT
              !.last_message_id = message_id,
              !.last_message_time = timestamp,
              !.total_messages = @ + 1,
              !.impression_update_count =
                  IF impression_updated THEN @ + 1 ELSE @,
              !.affection_update_count =
                  IF affection_updated THEN @ + 1 ELSE @])

\* update_message_state, lines 28-41
update_message_state(table, user_id, message_id, impression_updated, affection_updated, timestamp) ==
    LET state == GetOrCreate(table, user_id, NewState)
    IN Put(table, user_id,
           [state EXCEPT
              !.last_message_id = message_id,
              !.last_message_time = timestamp,
              !.total_messages = @ + 1,
              !.processed_messages = @ + 1,
              !.impression_update_count =
                  IF impression_updated THEN @ + 1 ELSE @,
              !.affection_update_count =
                  IF affection_updated THEN @ + 1 ELSE @])

----------------------------------------------------------------------------
(* Table user_impressions and TextImpressionService *)

Dims == {"personality_traits", "interests_hobbies", "communication_style",
         "emotional_tendencies", "behavioral_patterns", "values_attitudes",
         "relationship_preferences", "growth_development"}

\* the literal the prompt asks for when a dimension is unknown
Sentinel == "to be observed"

DefaultAffectionScore == 500

\* UserImpression.get_or_create(user_id, defaults={50.0, level, 0})
NewImpression(timestamp) ==
    [dims |-> [d \in Dims |-> ""],
     affection_score |-> DefaultAffectionScore,
     affection_level |-> "neutral",
     message_count |-> 0,
     last_interaction |-> timestamp,
     created_at |-> timestamp,
     updated_at |-> timestamp]

NoFields == [d \in {} |-> ""]
OneField(d, v) == [x \in {d} |-> v]
TwoFields(d1, v1, d2, v2) == [x \in {d1, d2} |-> IF x = d1 THEN v1 ELSE v2]

\* a reply to the impression prompt: for each FIELD: token of the text the
\* value the pattern captures, stripped; and the capture of IMPRESSION:
ImpressionReply(ok, fields, has_impression, impression) ==
    [success |-> ok, fields |-> fields, has_impression |-> has_impression,
     impression |-> impression]

ImpressionReplies ==
    { ImpressionReply(FALSE, NoFields, FALSE, ""),
      \* personality_traits: cheerful;interests_hobbies: <sentinel>
      ImpressionReply(TRUE, TwoFields("personality_traits", "cheerful",
                                      "interests_hobbies", Sentinel),
                      FALSE, ""),
      \* a text with no token at all
      ImpressionReply(TRUE, NoFields, FALSE, "") }

\* _parse_impression_response that adds the IMPRESSION: capture to the
\* extracted dimensions
_parse_impression_response_adds_fallback(content) ==
    LET found == {d \in DOMAIN content.fields :
                     content.fields[d] # "" /\ content.fields[d] # Sentinel}
        primary == [d \in found |-> content.fields[d]]
    IN IF content.has_impression /\ "interests_hobbies" \notin found
       THEN [d \in found \cup {"interests_hobbies"} |->
                IF d \in found THEN content.fields[d] ELSE content.impression]
       ELSE primary

\* _parse_impression_response: the mapping of the dimensions found
_parse_impression_response(content) ==
    LET found == {d \in DOMAIN content.fields :
                     content.fields[d] # "" /\ content.fields[d] # Sentinel}
    IN IF found # {} THEN [d \in found |-> content.fields[d]]
       ELSE IF content.has_impression
            THEN OneField("interests_hobbies", content.impression)
            ELSE NoFields

\* impression_data.get(key, "")
DataGet(impression_data, key) ==
    IF key \in DOMAIN impression_data THEN impression_data[key] ELSE ""

\* _save_impression with message_count set to 1 on every save
_save_impression_count_reset(table, user_id, impression_data, timestamp) ==
    LET impression == GetOrCreate(table, user_id, NewImpression(timestamp))
    IN Put(table, user_id,
           [impression EXCEPT
              !.dims = [d \in Dims |-> DataGet(impression_data, d)],
              !.message_count = 1,
              !.last_interaction = timestamp,
              !.updated_at = timestamp])

\* _save_impression that writes the affection defaults on every save
_save_impression_resets_affection(table, user_id, impression_data, timestamp) ==
    LET created == user_id \notin DOMAIN table
        impression == GetOrCreate(table, user_id, NewImpression(timestamp))
    IN Put(table, user_id,
           [impression EXCEPT
              !.dims = [d \in Dims |-> DataGet(impression_data, d)],
              !.affection_score = DefaultAffectionScore,
              !.affection_level = "neutral",
              !.message_count = IF created THEN 1 ELSE @ + 1,
              !.last_interaction = timestamp,
              !.updated_at = timestamp])

\* _save_impression: get_or_create, assign the eight dimensions, count, save
_save_impression(table, user_id, impression_data, timestamp) ==
    LET created == user_id \notin DOMAIN table
        impression == GetOrCreate(table, user_id, NewImpression(timestamp))
    IN Put(table, user_id,
           [impression EXCEPT
              !.dims = [d \in Dims |-> DataGet(impression_data, d)],
              !.message_count = IF created THEN 1 ELSE @ + 1,
              !.last_interaction = timestamp,
              !.updated_at = timestamp])

\* build_impression without the check of lines 46-47
build_impression_reply_saves_unparsed(table, user_id, reply, timestamp) ==
    IF ~reply.success THEN [table |-> table, ok |-> FALSE, saved |-> FALSE]
    ELSE [table |-> _save_impression(table, user_id,
                                     _parse_impression_response(reply),
                                     timestamp),
          ok |-> TRUE, saved |-> TRUE]

\* build_impression, lines 40-55: from the classifier's reply to the result
build_impression_reply(table, user_id, reply, timestamp) ==
    IF ~reply.success THEN [table |-> table, ok |-> FALSE, saved |-> FALSE]
    ELSE LET impression_data == _parse_impression_response(reply)
         IN IF impression_data = NoFields
            THEN [table |-> table, ok |-> FALSE, saved |-> FALSE]
            ELSE [table |-> _save_impression(table, user_id, impression_data,
                                             timestamp),
                  ok |-> TRUE, saved |-> TRUE]

----------------------------------------------------------------------------
(* AffectionService.update_affection and the level bands.  Neither          *)
(* services/affection_service.py nor utils/constants.py is among the        *)
(* sources; both are modelled from the specification (section 4.4) and the  *)
(* increments configured in plugin.py.                                      *)

friendly_increment == 20
neutral_increment == 5
negative_increment == 0 - 30
MinAffection == 0
MaxAffection == 1000

AffectionReplies == {"failed", "raised", "friendly"}

AFFECTION_LEVELS ==
    << [min |-> 0, max |-> 200, level |-> "hostile"],
       [min |-> 201, max |-> 400, level |-> "cold"],
       [min |-> 401, max |-> 600, level |-> "neutral"],
       [min |-> 601, max |-> 800, level |-> "friendly"],
       [min |-> 801, max |-> 1000, level |-> "close"] >>

\* get_affection_level with the upper boundary of a band left out
get_affection_level_exclusive(score) ==
    LET hits == {i \in 1..Len(AFFECTION_LEVELS) :
                    AFFECTION_LEVELS[i].min <= score
                    /\ score < AFFECTION_LEVELS[i].max}
    IN IF hits = {} THEN "neutral"
       ELSE AFFECTION_LEVELS[CHOOSE i \in hits : \A j \in hits : i <= j].level

\* get_affection_level: the first band that contains the score
get_affection_level(score) ==
    LET hits == {i \in 1..Len(AFFECTION_LEVELS) :
                    AFFECTION_LEVELS[i].min <= score
                    /\ score <= AFFECTION_LEVELS[i].max}
    IN IF hits = {} THEN "neutral"
       ELSE AFFECTION_LEVELS[CHOOSE i \in hits : \A j \in hits : i <= j].level

\* an argument of get_affection_level: a number, or a value that is neither
\* int nor float
NumberArg(n) == [is_number |-> TRUE, val |-> n]
NotANumber == [is_number |-> FALSE, val |-> 0]

\* get_affection_level, lines 20-21 before the band lookup
get_affection_level_of(arg) ==
    IF ~arg.is_number THEN "neutral" ELSE get_affection_level(arg.val)

\* a clamp that bounds the score from above only
Clamp_upper_only(x, lo, hi) == IF x > hi THEN hi ELSE x

Clamp(x, lo, hi) == IF x < lo THEN lo ELSE IF x > hi THEN hi ELSE x

Increment(label) ==
    IF label = "friendly" THEN friendly_increment
    ELSE IF label = "neutral" THEN neutral_increment
    ELSE negative_increment

\* update_affection: classify, add the increment, clamp, derive the level
update_affection(table, user_id, reply, timestamp) ==
    IF reply = "raised"
    THEN [table |-> table, ok |-> FALSE, raised |-> TRUE, saved |-> FALSE]
    ELSE IF reply = "failed"
    THEN [table |-> table, ok |-> FALSE, raised |-> FALSE, saved |-> FALSE]
    ELSE LET impression == GetOrCreate(table, user_id, NewImpression(timestamp))
             score == Clamp(impression.affection_score + Increment(reply),
                            MinAffection, MaxAffection)
         IN [table |-> Put(table, user_id,
                           [impression EXCEPT
                              !.affection_score = score,
                              !.affection_level = get_affection_level(score),
                              !.updated_at = timestamp]),
             ok |-> TRUE, raised |-> FALSE, saved |-> TRUE]

----------------------------------------------------------------------------
(* ImpressionUpdateHandler.handle.  A delivery is a coroutine; it is        *)
(* suspended only while a classifier call is awaited, so everything         *)
(* between two awaits is one step.  pc[p] is "idle", the call awaited       *)
(* ("weight_llm", "impression_llm", "affection_llm"), "finalize" (lines     *)
(* 212-223, run without suspension after update_affection returns) or       *)
(* "done" (handle has returned loc[p].result).                              *)

\* what a delivery saw of the user's profile
ProfileView(table, user_id) ==
    IF user_id \in DOMAIN table
    THEN [dims |-> table[user_id].dims,
          message_count |-> table[user_id].message_count]
    ELSE [dims |-> [d \in Dims |-> ""], message_count |-> 0]

RecordedIds(rows, user_id) ==
    {rows[i].message_id : i \in {j \in 1..Len(rows) : rows[j].user_id = user_id}}

SeqToSet(s) == {s[i] : i \in 1..Len(s)}

\* a configuration value of the client: the key is missing, or it holds
\* the empty string or a usable string
Missing == "<missing>"
ConfigValues == {Missing, "", "set"}

ProviderTypes == {"openai", "custom"}

Configs ==
    [api_key : ConfigValues, model_id : ConfigValues,
     provider_type : ProviderTypes]

NoConfig == [api_key |-> Missing, model_id |-> Missing, provider_type |-> "openai"]

Idle ==
    [op |-> "", user_id |-> "", message_id |-> 0, message_content |-> "",
     \* LLMClient.generate: the client's configuration and the success flag
     config |-> NoConfig, ok |-> FALSE,
     \* the failure that occurs during the call, if one is injected
     failure |-> "", line |-> 0,
     \* the query tools: the user whose profile the answer shows, the keyword
     matched_id |-> "", keyword |-> "",
     weight_success |-> FALSE, weight_score |-> 0, weight_level |-> "",
     processed_ids |-> <<>>, should_update_impression |-> FALSE,
     impression_updated |-> FALSE, affection_updated |-> FALSE,
     result |-> "",
     \* history variables: the calls made so far, the profile and the
     \* recorded ids as they were when handle was entered
     steps |-> <<>>,
     before |-> [dims |-> [d \in Dims |-> ""], message_count |-> 0],
     recorded_before |-> {}]

\* no delivery is in the middle of a run between two awaits: between
\* update_affection's return and handle's return, or handing its result over
NoneFinalizing == \A q \in Procs : pc[q] \notin {"finalize", "done"}

\* the orchestrator's assumption: one enrichment in flight per user
OnePerUser(p, user_id) ==
    \A q \in Procs \ {p} : pc[q] = "idle" \/ loc[q].user_id # user_id

\* lines 150-196 with the affection update inside the admitted branch
AfterEvaluate_affection_if_admitted(should_update_impression) ==
    IF should_update_impression THEN "impression_llm" ELSE "finalize"

\* lines 181-201: build_impression if admitted, else straight to
\* update_affection
AfterEvaluate(should_update_impression) ==
    IF should_update_impression THEN "impression_llm" ELSE "affection_llm"

\* lines 198-210 without the try/except: the exception ends handle in the
\* outer except clause
AfterAffection_uncaught(raised) == IF raised THEN "done" ELSE "finalize"

\* lines 198-215: whatever update_affection did, the state update follows
AfterAffection(raised) == "finalize"

\* lines 150-179 and the call of line 185: the locals after evaluate_message
Evaluated(l, weights, ok, score, level) ==
    LET should == ShouldUpdateImpression(filter_mode, ok, score)
    IN [l EXCEPT
          !.weight_success = ok,
          !.weight_score = score,
          !.weight_level = level,
          !.processed_ids = get_filtered_messages(weights, filter_mode,
                                                  l.user_id, ContextLimit),
          !.should_update_impression = should,
          !.steps = @ \o <<"get_filtered_messages">>
                      \o (IF AfterEvaluate(should) = "impression_llm"
                          THEN <<"build_impression">>
                          ELSE IF AfterEvaluate(should) = "affection_llm"
                          THEN <<"update_affection">> ELSE <<>>)]

Returned(l, result) == [l EXCEPT !.result = result]

\* handle without the test of the extracted content, lines 128-131
Receive_any_content(p, user_id, content) ==
    /\ pc[p] = "idle"
    /\ NoneFinalizing
    /\ user_id # "" => OnePerUser(p, user_id)
    /\ LET message_id == now
           entered == [Idle EXCEPT
                         !.op = "handle",
                         !.user_id = user_id,
                         !.message_id = message_id,
                         !.message_content = content,
                         !.before = ProfileView(impressions, user_id),
                         !.recorded_before = RecordedIds(records, user_id)]
           checked == [entered EXCEPT !.steps = <<"is_message_processed">>]
           called == [checked EXCEPT !.steps = @ \o <<"evaluate_message">>]
           hit == CachedIndex(message_weights, user_id, message_id)
       IN IF user_id = ""
          THEN /\ pc' = [pc EXCEPT ![p] = "done"]
               /\ loc' = [loc EXCEPT ![p] = Returned(entered, "no user id")]
          ELSE IF is_message_processed(records, user_id, message_id)
          THEN /\ pc' = [pc EXCEPT ![p] = "done"]
               /\ loc' = [loc EXCEPT ![p] = Returned(checked, "skipped")]
          ELSE IF hit # 0
          THEN LET cached == message_weights[user_id][hit]
                   l == Evaluated(called, message_weights, TRUE,
                                  cached.weight_score, cached.weight_level)
               IN /\ pc' = [pc EXCEPT
                              ![p] = AfterEvaluate(l.should_update_impression)]
                  /\ loc' = [loc EXCEPT ![p] = l]
          ELSE /\ pc' = [pc EXCEPT ![p] = "weight_llm"]
               /\ loc' = [loc EXCEPT ![p] =
                            [called EXCEPT
                               !.steps = @ \o <<"generate_weight_evaluation">>]]
    /\ deliveries' = IF user_id # "" /\ content # ""
                         /\ ~is_message_processed(records, user_id, now)
                      THEN deliveries + 1 ELSE deliveries
    /\ deliveries' <= MaxDeliveries
    /\ UNCHANGED <<filter_mode, now, message_weights, appended,
                   records, impressions, states>>

\* handle up to its first await: lines 94-148 and evaluate_message 43-53
Receive(p, user_id, content) ==
    /\ pc[p] = "idle"
    /\ NoneFinalizing
    /\ user_id # "" => OnePerUser(p, user_id)
    /\ LET message_id == now
           entered == [Idle EXCEPT
                         !.op = "handle",
                         !.user_id = user_id,
                         !.message_id = message_id,
                         !.message_content = content,
                         !.before = ProfileView(impressions, user_id),
                         !.recorded_before = RecordedIds(records, user_id)]
           checked == [entered EXCEPT !.steps = <<"is_message_processed">>]
           called == [checked EXCEPT !.steps = @ \o <<"evaluate_message">>]
           hit == CachedIndex(message_weights, user_id, message_id)
       IN IF user_id = ""
          THEN /\ pc' = [pc EXCEPT ![p] = "done"]
               /\ loc' = [loc EXCEPT ![p] = Returned(entered, "no user id")]
          ELSE IF content = ""
          THEN /\ pc' = [pc EXCEPT ![p] = "done"]
               /\ loc' = [loc EXCEPT ![p] = Returned(entered, "empty content")]
          ELSE IF is_message_processed(records, user_id, message_id)
          THEN /\ pc' = [pc EXCEPT ![p] = "done"]
               /\ loc' = [loc EXCEPT ![p] = Returned(checked, "skipped")]
          ELSE IF hit # 0
          THEN LET cached == message_weights[user_id][hit]
                   l == Evaluated(called, message_weights, TRUE,
                                  cached.weight_score, cached.weight_level)
               IN /\ pc' = [pc EXCEPT
                              ![p] = AfterEvaluate(l.should_update_impression)]
                  /\ loc' = [loc EXCEPT ![p] = l]
          ELSE /\ pc' = [pc EXCEPT ![p] = "weight_llm"]
               /\ loc' = [loc EXCEPT ![p] =
                            [called EXCEPT
                               !.steps = @ \o <<"generate_weight_evaluation">>]]
    /\ deliveries' = IF user_id # "" /\ content # ""
                         /\ ~is_message_processed(records, user_id, now)
                      THEN deliveries + 1 ELSE deliveries
    /\ deliveries' <= MaxDeliveries
    /\ UNCHANGED <<filter_mode, now, message_weights, appended,
                   records, impressions, states>>

\* the classifier answers the weight prompt: evaluate_message 55-75, then
\* handle 150-196 up to the next await
WeightAnswer(p, reply) ==
    /\ pc[p] = "weight_llm"
    /\ NoneFinalizing
    /\ LET l == loc[p]
           ev == evaluate_message_reply(message_weights, l.user_id,
                                        l.message_id, l.message_content,
                                        reply, Len(appended[l.user_id]) + 1)
           after == Evaluated(l, ev.weights, ev.ok, ev.score, ev.level)
       IN /\ message_weights' = ev.weights
          /\ appended' = IF ev.saved
                         THEN [appended EXCEPT ![l.user_id] =
                                 Append(@, ev.weights[l.user_id][
                                              Len(ev.weights[l.user_id])])]
                         ELSE appended
          /\ pc' = [pc EXCEPT
                      ![p] = AfterEvaluate(after.should_update_impression)]
          /\ loc' = [loc EXCEPT ![p] = after]
    /\ UNCHANGED <<filter_mode, now, deliveries, records, impressions, states>>

\* the classifier answers the impression prompt: build_impression 40-55,
\* then handle 188-201
ImpressionAnswer(p, reply) ==
    /\ pc[p] = "impression_llm"
    /\ NoneFinalizing
    /\ LET l == loc[p]
           built == build_impression_reply(impressions, l.user_id, reply, now)
       IN /\ impressions' = built.table
          /\ pc' = [pc EXCEPT ![p] = "affection_llm"]
          /\ loc' = [loc EXCEPT ![p] =
                       [l EXCEPT !.impression_updated = built.ok,
                                 !.steps = @ \o <<"update_affection">>]]
    /\ UNCHANGED <<filter_mode, now, deliveries, message_weights, appended, records,
                   states>>

\* build_impression whose _save_impression raises at get_or_create or at
\* save: lines 163-164 print the error, line 52 returns True
build_impression_save_fails(table, user_id, reply, timestamp) ==
    IF ~reply.success THEN [table |-> table, ok |-> FALSE, saved |-> FALSE]
    ELSE IF _parse_impression_response(reply) = NoFields
    THEN [table |-> table, ok |-> FALSE, saved |-> FALSE]
    ELSE [table |-> table, ok |-> TRUE, saved |-> FALSE]

\* the classifier answers the impression prompt with a text that parses and
\* the storage write of the merge fails
ImpressionAnswerSaveFails(p, reply) ==
    /\ pc[p] = "impression_llm"
    /\ NoneFinalizing
    /\ reply.success /\ _parse_impression_response(reply) # NoFields
    /\ LET l == loc[p]
           built == build_impression_save_fails(impressions, l.user_id, reply, now)
       IN /\ impressions' = built.table
          /\ pc' = [pc EXCEPT ![p] = "affection_llm"]
          /\ loc' = [loc EXCEPT ![p] =
                       [l EXCEPT !.impression_updated = built.ok,
                                 !.steps = @ \o <<"update_affection">>]]
    /\ UNCHANGED <<filter_mode, now, deliveries, message_weights, appended, records,
                   states>>

\* the classifier answers the affection prompt: update_affection, then
\* handle 204-210
AffectionAnswer(p, reply) ==
    /\ pc[p] = "affection_llm"
    /\ NoneFinalizing
    /\ LET l == loc[p]
           updated == update_affection(impressions, l.user_id, reply, now)
       IN /\ impressions' = updated.table
          /\ pc' = [pc EXCEPT ![p] = AfterAffection(updated.raised)]
          /\ loc' = [loc EXCEPT ![p] =
                       [l EXCEPT !.affection_updated = updated.ok]]
    /\ UNCHANGED <<filter_mode, now, deliveries, message_weights, appended, records,
                   states>>

\* handle 217-221 with the trigger's own record left out
RecordProcessed_context_only(rows, user_id, processed_ids, message_id) ==
    record_all(rows, user_id, processed_ids)

\* handle 217-221: the context ids, then the triggering message
RecordProcessed(rows, user_id, processed_ids, message_id) ==
    record_processed_message(record_all(rows, user_id, processed_ids),
                             user_id, message_id).rows

\* handle 212-223 with the records written before the state update
Finalize_record_first(p) ==
    /\ pc[p] = "finalize"
    /\ LET l == loc[p]
       IN /\ records' = RecordProcessed(records, l.user_id, l.processed_ids,
                                        l.message_id)
          /\ states' = update_message_state(states, l.user_id, l.message_id,
                                            l.impression_updated,
                                            l.affection_updated, now)
          /\ pc' = [pc EXCEPT ![p] = "done"]
          /\ loc' = [loc EXCEPT ![p] =
                       [l EXCEPT !.result = "complete",
                                 !.steps = @ \o <<"record_processed_message",
                                                  "update_message_state">>]]
    /\ UNCHANGED <<filter_mode, now, deliveries, message_weights, appended, impressions>>

\* handle 212-223: update_message_state, the records, the result
Finalize(p) ==
    /\ pc[p] = "finalize"
    /\ LET l == loc[p]
       IN /\ states' = update_message_state(states, l.user_id, l.message_id,
                                            l.impression_updated,
                                            l.affection_updated, now)
          /\ records' = RecordProcessed(records, l.user_id, l.processed_ids,
                                        l.message_id)
          /\ pc' = [pc EXCEPT ![p] = "done"]
          /\ loc' = [loc EXCEPT ![p] =
                       [l EXCEPT !.result = "complete",
                                 !.steps = @ \o <<"update_message_state",
                                                  "record_processed_message">>]]
    /\ UNCHANGED <<filter_mode, now, deliveries, message_weights, appended, impressions>>

\* the host takes the result; the delivery slot is free again
Return(p) ==
    /\ pc[p] = "done"
    /\ pc' = [pc EXCEPT ![p] = "idle"]
    /\ loc' = [loc EXCEPT ![p] = Idle]
    /\ UNCHANGED <<filter_mode, now, deliveries, message_weights, appended,
                   records, impressions, states>>

\* a millisecond passes
Tick ==
    /\ now < MaxTime
    /\ NoneFinalizing
    /\ now' = now + 1
    /\ UNCHANGED <<filter_mode, deliveries, message_weights, appended, records,
                   impressions, states, pc, loc>>

EmptyTable == [u \in {} |-> 0]

Init ==
    /\ filter_mode \in FilterModes
    /\ now = 1
    /\ deliveries = 0
    /\ message_weights = [u \in Users |-> <<>>]
    /\ appended = [u \in Users |-> <<>>]
    /\ records = <<>>
    /\ impressions = EmptyTable
    /\ states = EmptyTable
    /\ pc = [p \in Procs |-> "idle"]
    /\ loc = [p \in Procs |-> Idle]

Next ==
    \/ Tick
    \/ \E p \in Procs, user_id \in Users \cup {""}, content \in Contents \cup {""} :
          Receive(p, user_id, content)
    \/ \E p \in Procs, reply \in WeightReplies : WeightAnswer(p, reply)
    \/ \E p \in Procs, reply \in ImpressionReplies : ImpressionAnswer(p, reply)
    \/ \E p \in Procs, reply \in AffectionReplies : AffectionAnswer(p, reply)
    \/ \E p \in Procs : Finalize(p)
    \/ \E p \in Procs : Return(p)

Spec == Init /\ [][Next]_vars

\* every awaited classifier call returns (an answer, a failure or a
\* timeout) and the event loop resumes the waiting coroutine once the run
\* that holds the loop has ended; a run between two awaits completes
Fairness ==
    \A p \in Procs :
        /\ SF_vars(\E reply \in WeightReplies : WeightAnswer(p, reply))
        /\ SF_vars(\E reply \in ImpressionReplies : ImpressionAnswer(p, reply))
        /\ SF_vars(\E reply \in AffectionReplies : AffectionAnswer(p, reply))
        /\ WF_vars(Finalize(p))
        /\ WF_vars(Return(p))

\* the deliveries of one millisecond: the clock stands still
NextFair ==
    \/ \E p \in Procs, user_id \in Users \cup {""}, content \in Contents \cup {""} :
          Receive(p, user_id, content)
    \/ \E p \in Procs, reply \in WeightReplies : WeightAnswer(p, reply)
    \/ \E p \in Procs, reply \in ImpressionReplies : ImpressionAnswer(p, reply)
    \/ \E p \in Procs, reply \in AffectionReplies : AffectionAnswer(p, reply)
    \/ \E p \in Procs : Finalize(p)
    \/ \E p \in Procs : Return(p)

FairSpec == Init /\ [][NextFair]_vars /\ Fairness

\* handle over a profile table whose writes may fail during the merge
NextStorage ==
    \/ \E p \in Procs, user_id \in Users \cup {""}, content \in Contents \cup {""} :
          Receive(p, user_id, content)
    \/ \E p \in Procs, reply \in WeightReplies : WeightAnswer(p, reply)
    \/ \E p \in Procs, reply \in ImpressionReplies : ImpressionAnswer(p, reply)
    \/ \E p \in Procs, reply \in ImpressionReplies :
          ImpressionAnswerSaveFails(p, reply)
    \/ \E p \in Procs, reply \in AffectionReplies : AffectionAnswer(p, reply)
    \/ \E p \in Procs : Finalize(p)
    \/ \E p \in Procs : Return(p)

SpecStorage == Init /\ [][NextStorage]_vars

----------------------------------------------------------------------------
(* MessageService called directly by concurrent callers: between the       *)
(* existence check of record_processed_message (lines 58-64) and its       *)
(* insert (lines 67-72) another caller may run.                            *)

Call(op, user_id, message_id, steps) ==
    [Idle EXCEPT !.op = op, !.user_id = user_id, !.message_id = message_id,
                 !.steps = steps]

Bool(b) == IF b THEN "True" ELSE "False"

\* record_processed_message, lines 58-64: the existence check
RecordSelect(p, user_id, message_id) ==
    /\ pc[p] = "idle"
    /\ IF Existing(records, user_id, message_id)
       THEN /\ pc' = [pc EXCEPT ![p] = "returned"]
            /\ loc' = [loc EXCEPT ![p] =
                         Returned(Call("record_processed_message", user_id,
                                       message_id, <<"existing">>),
                                  Bool(FALSE))]
       ELSE /\ pc' = [pc EXCEPT ![p] = "inserting"]
            /\ loc' = [loc EXCEPT ![p] =
                         Call("record_processed_message", user_id,
                              message_id, <<"not existing">>)]
    /\ UNCHANGED <<filter_mode, now, deliveries, message_weights, appended,
                   records, impressions, states>>

\* record_processed_message, lines 66-81: the insert, True, or the except
\* clause and False
RecordInsert(p) ==
    /\ pc[p] = "inserting"
    /\ LET l == loc[p]
           made == Create(records, l.user_id, l.message_id)
           done == record_insert(records, l.user_id, l.message_id)
       IN /\ records' = done.rows
          /\ pc' = [pc EXCEPT ![p] = "returned"]
          /\ loc' = [loc EXCEPT ![p] =
                       [l EXCEPT
                          !.result = Bool(done.ret),
                          !.steps = @ \o (IF made.raised
                                          THEN <<"IntegrityError">>
                                          ELSE <<"created">>)]]
    /\ UNCHANGED <<filter_mode, now, deliveries, message_weights, appended,
                   impressions, states>>

\* is_message_processed
IsProcessed(p, user_id, message_id) ==
    /\ pc[p] = "idle"
    /\ pc' = [pc EXCEPT ![p] = "returned"]
    /\ loc' = [loc EXCEPT ![p] =
                 Returned(Call("is_message_processed", user_id, message_id,
                               <<>>),
                          Bool(is_message_processed(records, user_id,
                                                    message_id)))]
    /\ UNCHANGED <<filter_mode, now, deliveries, message_weights, appended,
                   records, impressions, states>>

\* the caller takes the result
CallReturn(p) ==
    /\ pc[p] = "returned"
    /\ pc' = [pc EXCEPT ![p] = "idle"]
    /\ loc' = [loc EXCEPT ![p] = Idle]
    /\ UNCHANGED <<filter_mode, now, deliveries, message_weights, appended,
                   records, impressions, states>>

InitService ==
    /\ filter_mode = "selective"
    /\ now = 1
    /\ deliveries = 0
    /\ message_weights = [u \in Users |-> <<>>]
    /\ appended = [u \in Users |-> <<>>]
    /\ records = <<>>
    /\ impressions = EmptyTable
    /\ states = EmptyTable
    /\ pc = [p \in Procs |-> "idle"]
    /\ loc = [p \in Procs |-> Idle]

NextDedup ==
    \/ \E p \in Procs, user_id \in Users, message_id \in MessageIds :
          RecordSelect(p, user_id, message_id)
    \/ \E p \in Procs : RecordInsert(p)
    \/ \E p \in Procs, user_id \in Users, message_id \in MessageIds :
          IsProcessed(p, user_id, message_id)
    \/ \E p \in Procs : CallReturn(p)

SpecDedup == InitService /\ [][NextDedup]_vars

----------------------------------------------------------------------------
(* The bounded history under a long run of appends.  The n-th append for a *)
(* user saves message id n, with scores that cycle through the admission   *)
(* bands.                                                                  *)

ScoreOf(n) == IF n % 3 = 0 THEN 75 ELSE IF n % 3 = 1 THEN 50 ELSE 20
LevelOf(n) == IF n % 3 = 0 THEN "high" ELSE IF n % 3 = 1 THEN "medium" ELSE "low"

\* evaluate_message, lines 66-72, for a message that is not in the history
SaveWeight(user_id) ==
    /\ Len(appended[user_id]) < MaxAppends
    /\ LET n == Len(appended[user_id]) + 1
           saved == _save_weight(message_weights, user_id, n, "ok",
                                 ScoreOf(n), LevelOf(n), n)
       IN /\ message_weights' = saved
          /\ appended' = [appended EXCEPT ![user_id] =
                            Append(@, WeightRecord(n, ScoreOf(n), LevelOf(n),
                                                   n, "ok"))]
    /\ UNCHANGED <<filter_mode, now, deliveries, records, impressions, states,
                   pc, loc>>

NextHist == \E user_id \in Users : SaveWeight(user_id)

SpecHist == InitService /\ [][NextHist]_vars

----------------------------------------------------------------------------
(* The first half of handle, lines 146-179, entered by concurrent callers  *)
(* with any message id: evaluate_message (the cache lookup, the awaited    *)
(* classifier call, the parse, the save), get_filtered_messages and the    *)
(* admission decision.  The replies cover every branch of                  *)
(* _parse_weight_response.                                                 *)

EvalReplies ==
    { WeightReply(FALSE, FALSE, Absent, Absent),               \* transport failure
      WeightReply(TRUE, TRUE, Absent, Absent),                 \* fewer than 10 characters
      WeightReply(TRUE, FALSE, Absent, Absent),                \* no score token, no JSON object
      WeightReply(TRUE, FALSE, Absent, Text("high")),          \* {"weight_score": "high"}
      WeightReply(TRUE, FALSE, Malformed("high"), Absent),     \* WEIGHT_SCORE: 1.2.3
      WeightReply(TRUE, FALSE, Number(75, "low"), Absent),     \* WEIGHT_SCORE: 75;WEIGHT_LEVEL: low
      WeightReply(TRUE, FALSE, Absent, Number(75, "high")),    \* {"weight_score": 75, ...}
      WeightReply(TRUE, FALSE, Number(70, "high"), Number(20, "low")),
      WeightReply(TRUE, FALSE, Absent, Number(40, "medium")),
      WeightReply(TRUE, FALSE, Number(39, "medium"), Absent),
      WeightReply(TRUE, FALSE, Number(150, "urgent"), Absent) } \* WEIGHT_SCORE: 150;WEIGHT_LEVEL: urgent

\* handle 146-148 and evaluate_message 43-53: the cache lookup
EvalStart(p, user_id, message_id, content) ==
    /\ pc[p] = "idle"
    /\ deliveries < MaxEvalCalls
    /\ deliveries' = deliveries + 1
    /\ LET called == [Call("evaluate_message", user_id, message_id,
                           <<"evaluate_message">>)
                        EXCEPT !.message_content = content]
           hit == CachedIndex(message_weights, user_id, message_id)
       IN IF hit # 0
          THEN LET cached == message_weights[user_id][hit]
               IN /\ pc' = [pc EXCEPT ![p] = "returned"]
                  /\ loc' = [loc EXCEPT ![p] =
                               Evaluated(called, message_weights, TRUE,
                                         cached.weight_score,
                                         cached.weight_level)]
          ELSE /\ pc' = [pc EXCEPT ![p] = "weight_llm"]
               /\ loc' = [loc EXCEPT ![p] =
                            [called EXCEPT
                               !.steps = @ \o <<"generate_weight_evaluation">>]]
    /\ UNCHANGED <<filter_mode, now, message_weights, appended, records,
                   impressions, states>>

\* evaluate_message 55-75, then handle 150-179
EvalAnswer(p, reply) ==
    /\ pc[p] = "weight_llm"
    /\ LET l == loc[p]
           ev == evaluate_message_reply(message_weights, l.user_id,
                                        l.message_id, l.message_content,
                                        reply, Len(appended[l.user_id]) + 1)
       IN /\ message_weights' = ev.weights
          /\ appended' = IF ev.saved
                         THEN [appended EXCEPT ![l.user_id] =
                                 Append(@, ev.weights[l.user_id][
                                              Len(ev.weights[l.user_id])])]
                         ELSE appended
          /\ pc' = [pc EXCEPT ![p] = "returned"]
          /\ loc' = [loc EXCEPT ![p] =
                       Evaluated(l, ev.weights, ev.ok, ev.score, ev.level)]
    /\ UNCHANGED <<filter_mode, now, deliveries, records, impressions, states>>

NextEval ==
    \/ \E p \in Procs, user_id \in Users, message_id \in MessageIds,
          content \in Contents : EvalStart(p, user_id, message_id, content)
    \/ \E p \in Procs, reply \in EvalReplies : EvalAnswer(p, reply)
    \/ \E p \in Procs : CallReturn(p)

SpecEval == Init /\ [][NextEval]_vars

----------------------------------------------------------------------------
(* get_filtered_messages called on the histories that a long run of        *)
(* appends builds, under every filter mode.  The function is synchronous:  *)
(* nothing runs between its call and its return.                           *)

\* get_filtered_messages(user_id) with the default limit
SelectContext(p, user_id) ==
    /\ \A q \in Procs : pc[q] = "idle"
    /\ pc' = [pc EXCEPT ![p] = "returned"]
    /\ loc' = [loc EXCEPT ![p] =
                 [Call("get_filtered_messages", user_id, 0,
                       <<"get_filtered_messages">>)
                  EXCEPT !.processed_ids =
                            get_filtered_messages(message_weights, filter_mode,
                                                  user_id, ContextLimit)]]
    /\ UNCHANGED <<filter_mode, now, deliveries, message_weights, appended,
                   records, impressions, states>>

\* an append between two calls of get_filtered_messages
SaveBetweenCalls(user_id) ==
    /\ \A q \in Procs : pc[q] = "idle"
    /\ Len(appended[user_id]) < MaxFilterAppends
    /\ SaveWeight(user_id)

NextFilter ==
    \/ \E user_id \in Users : SaveBetweenCalls(user_id)
    \/ \E p \in Procs, user_id \in Users : SelectContext(p, user_id)
    \/ \E p \in Procs : CallReturn(p)

SpecFilter == Init /\ [][NextFilter]_vars

----------------------------------------------------------------------------
(* TextImpressionService.build_impression called by concurrent callers,    *)
(* with replies that cover the branches of _parse_impression_response.     *)
(* _save_impression has no await in it: from the classifier's reply to     *)
(* the return of build_impression nothing else runs.                       *)

MergeReplies ==
    { ImpressionReply(FALSE, NoFields, FALSE, ""),
      \* a text with no token at all
      ImpressionReply(TRUE, NoFields, FALSE, ""),
      \* personality_traits: ;communication_style: <sentinel>
      ImpressionReply(TRUE, TwoFields("personality_traits", "",
                                      "communication_style", Sentinel),
                      FALSE, ""),
      \* personality_traits: cheerful;interests_hobbies: <sentinel>
      ImpressionReply(TRUE, TwoFields("personality_traits", "cheerful",
                                      "interests_hobbies", Sentinel),
                      FALSE, ""),
      \* interests_hobbies: sci-fi
      ImpressionReply(TRUE, OneField("interests_hobbies", "sci-fi"),
                      FALSE, ""),
      \* IMPRESSION: likes books
      ImpressionReply(TRUE, NoFields, TRUE, "likes books"),
      \* IMPRESSION: <sentinel>
      ImpressionReply(TRUE, NoFields, TRUE, Sentinel),
      \* values_attitudes: honest;IMPRESSION: likes books
      ImpressionReply(TRUE, OneField("values_attitudes", "honest"),
                      TRUE, "likes books"),
      \* growth_development: <sentinel>;IMPRESSION: likes music
      ImpressionReply(TRUE, OneField("growth_development", Sentinel),
                      TRUE, "likes music") }

\* build_impression 33-38: the prompt is built and the classifier awaited
MergeStart(p, user_id) ==
    /\ pc[p] = "idle"
    /\ deliveries < MaxMergeCalls
    /\ deliveries' = deliveries + 1
    /\ pc' = [pc EXCEPT ![p] = "impression_llm"]
    /\ loc' = [loc EXCEPT ![p] =
                 Call("build_impression", user_id, 0, <<"build_impression">>)]
    /\ UNCHANGED <<filter_mode, now, message_weights, appended, records,
                   impressions, states>>

\* build_impression 40-55
MergeAnswer(p, reply) ==
    /\ pc[p] = "impression_llm"
    /\ LET l == loc[p]
           built == build_impression_reply(impressions, l.user_id, reply, now)
       IN /\ impressions' = built.table
          /\ pc' = [pc EXCEPT ![p] = "returned"]
          /\ loc' = [loc EXCEPT ![p] =
                       [l EXCEPT !.impression_updated = built.ok,
                                 !.result = Bool(built.ok)]]
    /\ UNCHANGED <<filter_mode, now, deliveries, message_weights, appended,
                   records, states>>

NextMerge ==
    \/ Tick
    \/ \E p \in Procs, user_id \in Users : MergeStart(p, user_id)
    \/ \E p \in Procs, reply \in MergeReplies : MergeAnswer(p, reply)
    \/ \E p \in Procs : CallReturn(p)

SpecMerge == InitService /\ [][NextMerge]_vars

----------------------------------------------------------------------------
(* The affection score over long runs of updates.  Profiles are created by *)
(* a successful merge or by the first affection update; a call is taken    *)
(* when no other call is in progress (the interleavings of the awaits are  *)
(* those of handle above), so that the scores can run through [0,100].     *)
(* get_affection_level reads no state: it is applied to its arguments in   *)
(* the initial table.                                                      *)

AffectionLabels == {"failed", "raised", "friendly", "neutral", "negative"}

LevelArgs ==
    {NotANumber}
    \cup {NumberArg(n) : n \in {0 - 5, 0, 200, 201, 400, 401, 500, 600, 601,
                                800, 801, 1000, 1001}}

\* build_impression for a user without a profile, answered with one field
CreateByMerge(user_id) ==
    /\ \A q \in Procs : pc[q] = "idle"
    /\ user_id \notin DOMAIN impressions
    /\ impressions' =
          build_impression_reply(impressions, user_id,
                                 ImpressionReply(TRUE,
                                     OneField("interests_hobbies", "sci-fi"),
                                     FALSE, ""),
                                 now).table
    /\ UNCHANGED <<filter_mode, now, deliveries, message_weights, appended,
                   records, states, pc, loc>>

\* update_affection for a user, classified as label
UpdateAffection(user_id, label) ==
    /\ \A q \in Procs : pc[q] = "idle"
    /\ impressions' = update_affection(impressions, user_id, label, now).table
    /\ UNCHANGED <<filter_mode, now, deliveries, message_weights, appended,
                   records, states, pc, loc>>

\* get_affection_level(arg)
LevelCall(p, arg) ==
    /\ \A q \in Procs : pc[q] = "idle"
    /\ impressions = EmptyTable
    /\ pc' = [pc EXCEPT ![p] = "returned"]
    /\ loc' = [loc EXCEPT ![p] =
                 Returned(Call("get_affection_level", "", 0, <<>>),
                          get_affection_level_of(arg))]
    /\ UNCHANGED <<filter_mode, now, deliveries, message_weights, appended,
                   records, impressions, states>>

NextAffection ==
    \/ \E user_id \in Users : CreateByMerge(user_id)
    \/ \E user_id \in Users, label \in AffectionLabels :
          UpdateAffection(user_id, label)
    \/ \E p \in Procs, arg \in LevelArgs : LevelCall(p, arg)
    \/ \E p \in Procs : CallReturn(p)

SpecAffection == InitService /\ [][NextAffection]_vars

----------------------------------------------------------------------------
(* LLMClient.generate with its two providers.  The provider's request is   *)
(* the only await; it ends with an answer, with an error, or when the      *)
(* timeout of the HTTP client fires.                                       *)

\* not self.config.get(key)
Unset(value) == value = Missing \/ value = ""

\* what a provider's request can end with, timeout apart
ProviderOutcomes == {"content", "error", "unknown_format"}

\* the HTTP client of the provider gives up on a request that gets no answer:
\* httpx.AsyncClient(timeout=30) for custom, the default timeout of
\* openai.AsyncOpenAI for openai
HasTimeout_custom_only(provider_type) == provider_type = "custom"

HasTimeout(provider_type) == provider_type \in {"openai", "custom"}

\* generate that hands every call to the provider
Generate_unchecked(p, config) ==
    /\ pc[p] = "idle"
    /\ pc' = [pc EXCEPT ![p] = "provider"]
    /\ loc' = [loc EXCEPT ![p] =
                 [Idle EXCEPT !.op = "generate", !.config = config,
                              !.steps = <<"provider.generate">>]]
    /\ UNCHANGED <<filter_mode, now, deliveries, message_weights, appended,
                   records, impressions, states>>

\* LLMClient.generate up to the provider's await
Generate(p, config) ==
    /\ pc[p] = "idle"
    /\ IF Unset(config.api_key) \/ Unset(config.model_id)
       THEN /\ pc' = [pc EXCEPT ![p] = "returned"]
            /\ loc' = [loc EXCEPT ![p] =
                         [Idle EXCEPT !.op = "generate", !.config = config,
                                      !.ok = FALSE,
                                      !.result = "LLM not configured"]]
       ELSE /\ pc' = [pc EXCEPT ![p] = "provider"]
            /\ loc' = [loc EXCEPT ![p] =
                         [Idle EXCEPT !.op = "generate", !.config = config,
                                      !.steps = <<"provider.generate">>]]
    /\ UNCHANGED <<filter_mode, now, deliveries, message_weights, appended,
                   records, impressions, states>>

\* the provider's request ends: the text of the first choice, an exception
\* (connection, HTTP status, API error) caught by the provider, or, for the
\* custom provider, a body with neither "choices" nor "content"
ProviderAnswer(p, outcome) ==
    /\ pc[p] = "provider"
    /\ outcome = "unknown_format" => loc[p].config.provider_type = "custom"
    /\ pc' = [pc EXCEPT ![p] = "returned"]
    /\ loc' = [loc EXCEPT ![p].ok = (outcome = "content"),
                          ![p].result = outcome]
    /\ UNCHANGED <<filter_mode, now, deliveries, message_weights, appended,
                   records, impressions, states>>

\* the request got no answer in time: the HTTP client raises, the provider's
\* except clause turns it into (False, message)
ProviderTimeout(p) ==
    /\ pc[p] = "provider"
    /\ HasTimeout(loc[p].config.provider_type)
    /\ pc' = [pc EXCEPT ![p] = "returned"]
    /\ loc' = [loc EXCEPT ![p].ok = FALSE, ![p].result = "timeout"]
    /\ UNCHANGED <<filter_mode, now, deliveries, message_weights, appended,
                   records, impressions, states>>

NextClient ==
    \/ \E p \in Procs, config \in Configs : Generate(p, config)
    \/ \E p \in Procs, outcome \in ProviderOutcomes : ProviderAnswer(p, outcome)
    \/ \E p \in Procs : ProviderTimeout(p)
    \/ \E p \in Procs : CallReturn(p)

SpecClient == InitService /\ [][NextClient]_vars

\* the timeout is the only step that is sure to come; the caller takes the
\* result of a call that has returned
FairClient ==
    /\ InitService
    /\ [][NextClient]_vars
    /\ \A p \in Procs : WF_vars(ProviderTimeout(p))
    /\ \A p \in Procs : WF_vars(CallReturn(p))

----------------------------------------------------------------------------
(* Failures inside the public operations: the classifier call fails, its   *)
(* answer does not parse, a storage statement raises, or any other         *)
(* statement of the body raises.  Each call below is one in which the      *)
(* failure occurs; what it returns is what the except clause or the        *)
(* failure branch that the code reaches returns.                           *)

PublicOps ==
    {"handle", "evaluate_message", "build_impression", "update_message_state",
     "record_processed_message", "is_message_processed",
     "get_user_impression", "search_impressions"}

\* a statement that can fail: its line, the kind of failure, whether the
\* failure is an exception (the classifier and the parsers report theirs in
\* the value they return), and for a reported failure what the operation
\* returns on that branch
Raising(line, kind) == [line |-> line, kind |-> kind, raises |-> TRUE, ok |-> FALSE, result |-> ""]
Reported(line, kind, ok, result) == [line |-> line, kind |-> kind, raises |-> FALSE, ok |-> ok, result |-> result]

\* a try block: the lines of its try and except keywords, and what the
\* operation returns once the except clause has run
Block(try, except, ok, result) == [try |-> try, except |-> except, ok |-> ok, result |-> result]

\* the failing statements of an operation, those of the private methods it
\* calls in its own file included
FailurePoints(op) ==
    CASE op = "handle" ->
            {Raising(90, "other"), Raising(156, "other"),
             Raising(185, "other"), Raising(201, "storage"),
             Raising(201, "classifier"), Raising(201, "parse"),
             Raising(213, "other"), Raising(221, "other")}
      [] op = "evaluate_message" ->
            {Raising(50, "other"),
             Reported(53, "classifier", TRUE, "default weight"),
             Reported(60, "parse", TRUE, "default weight"),
             Raising(70, "other")}
      [] op = "build_impression" ->
            {Raising(35, "other"),
             Reported(38, "classifier", FALSE, "LLM call failed"),
             Reported(44, "parse", FALSE, "parse failed"),
             Raising(134, "storage"), Raising(161, "storage")}
      [] op = "update_message_state" ->
            {Raising(28, "storage"), Raising(41, "storage")}
      [] op = "record_processed_message" ->
            {Raising(61, "storage"), Raising(70, "storage")}
      [] op = "is_message_processed" -> {Raising(95, "storage")}
      [] op = "get_user_impression" ->
            {Raising(43, "other"), Raising(58, "storage"),
             Raising(72, "storage"), Raising(92, "storage"),
             Raising(140, "other"), Raising(150, "storage")}
      [] OTHER ->
            {Raising(198, "other"), Raising(208, "storage"),
             Raising(242, "other")}

\* the try blocks of an operation and of the private methods it calls
TryBlocks(op) ==
    CASE op = "handle" ->
            {Block(88, 225, FALSE, "exception"), Block(183, 193, TRUE, "status"),
             Block(200, 209, TRUE, "status")}
      [] op = "evaluate_message" -> {Block(42, 74, FALSE, "evaluation failed")}
      [] op = "build_impression" ->
            {Block(33, 54, FALSE, "build failed"),
             Block(132, 163, TRUE, "impression")}
      [] op = "update_message_state" -> {Block(27, 43, FALSE, "None")}
      [] op = "record_processed_message" -> {Block(59, 79, FALSE, "False")}
      [] op = "is_message_processed" -> {Block(94, 102, FALSE, "False")}
      [] op = "get_user_impression" ->
            {Block(39, 173, FALSE, "query failed"),
             Block(57, 64, FALSE, "no impression data"),
             Block(69, 86, FALSE, "no impression data"),
             Block(91, 96, FALSE, "no impression data"),
             Block(146, 162, FALSE, "no impression data")}
      [] OTHER -> {Block(197, 251, FALSE, "search failed")}

\* a try block that protects its statements from the second one on
Encloses_after_first_statement(block, line) ==
    block.try + 1 < line /\ line < block.except

\* the statement at line lies between try and except
Encloses(block, line) == block.try < line /\ line < block.except

Enclosing(op, line) == {b \in TryBlocks(op) : Encloses(b, line)}

\* the innermost of the enclosing try blocks
Innermost(blocks) == CHOOSE b \in blocks : \A c \in blocks : c.try <= b.try

\* the exception propagates out of the operation
Escapes(op, point) == point.raises /\ Enclosing(op, point.line) = {}

\* the success flag and the text the operation returns
OnFailure(op, point) ==
    IF ~point.raises THEN [ok |-> point.ok, result |-> point.result]
    ELSE LET b == Innermost(Enclosing(op, point.line))
         IN [ok |-> b.ok, result |-> b.result]

\* a call of op during which the statement at point fails; a statement that
\* failed has written nothing
FailingCall(p, op, point) ==
    /\ pc[p] = "idle"
    /\ IF Escapes(op, point)
       THEN /\ pc' = [pc EXCEPT ![p] = "raised"]
            /\ loc' = [loc EXCEPT ![p] =
                         [Idle EXCEPT !.op = op, !.failure = point.kind,
                                      !.line = point.line]]
       ELSE /\ pc' = [pc EXCEPT ![p] = "returned"]
            /\ loc' = [loc EXCEPT ![p] =
                         [Idle EXCEPT !.op = op, !.failure = point.kind,
                                      !.line = point.line,
                                      !.ok = OnFailure(op, point).ok,
                                      !.result = OnFailure(op, point).result]]
    /\ UNCHANGED <<filter_mode, now, deliveries, message_weights, appended,
                   records, impressions, states>>

NextFaults ==
    \/ \E p \in Procs, op \in PublicOps :
          \E point \in FailurePoints(op) : FailingCall(p, op, point)
    \/ \E p \in Procs : CallReturn(p)

SpecFaults == InitService /\ [][NextFaults]_vars

----------------------------------------------------------------------------
(* The query tools over tables filled by merges and state updates.  Both   *)
(* execute methods run without an await.                                   *)

MaxStateUpdates == 2

QueryIds == Users \cup {""}

Keywords == {"", "sci", "SCI", "music"}

\* str.lower() on the keywords and dimension texts of the model
Lower(s) == IF s = "SCI" THEN "sci" ELSE s

\* keyword in content, for the texts of the model
Contains(content, keyword) ==
    \/ keyword = content
    \/ keyword = "sci" /\ content = "sci-fi"

\* update_message_state for a message of user_id
CountMessage(user_id) ==
    /\ \A q \in Procs : pc[q] = "idle"
    /\ deliveries < MaxStateUpdates
    /\ deliveries' = deliveries + 1
    /\ states' = update_message_state(states, user_id, deliveries + 1, FALSE, FALSE, now)
    /\ UNCHANGED <<filter_mode, now, message_weights, appended, records,
                   impressions, pc, loc>>

\* the users whose profile GetUserImpressionTool.execute may take for
\* user_id: the user's own (method 1), else that of a user with a row in
\* user_message_states and a profile (method 2), else the most recently
\* updated profile (method 3)
Matches(user_id) ==
    IF user_id \in DOMAIN impressions THEN {user_id}
    ELSE IF DOMAIN states \cap DOMAIN impressions # {}
    THEN DOMAIN states \cap DOMAIN impressions
    ELSE {v \in DOMAIN impressions :
            \A w \in DOMAIN impressions :
                impressions[w].updated_at <= impressions[v].updated_at}

\* GetUserImpressionTool.execute
GetImpression(p, user_id) ==
    /\ pc[p] = "idle"
    /\ pc' = [pc EXCEPT ![p] = "returned"]
    /\ LET call == [Idle EXCEPT !.op = "get_user_impression", !.user_id = user_id]
       IN IF user_id = ""
          THEN loc' = [loc EXCEPT ![p] = Returned(call, "missing user_id")]
          ELSE IF Matches(user_id) = {}
          THEN loc' = [loc EXCEPT ![p] = Returned(call, "no impression data")]
          ELSE \E matched_id \in Matches(user_id) :
                  loc' = [loc EXCEPT ![p] =
                            [Returned(call, "impression") EXCEPT
                               !.matched_id = matched_id, !.ok = TRUE]]
    /\ UNCHANGED <<filter_mode, now, deliveries, message_weights, appended,
                   records, impressions, states>>

\* SearchImpressionsTool.execute
SearchImpressions(p, user_id, keyword) ==
    /\ pc[p] = "idle"
    /\ pc' = [pc EXCEPT ![p] = "returned"]
    /\ LET call == [Idle EXCEPT !.op = "search_impressions", !.user_id = user_id, !.keyword = keyword]
       IN IF user_id = "" \/ keyword = ""
          THEN loc' = [loc EXCEPT ![p] = Returned(call, "missing arguments")]
          ELSE IF user_id \notin DOMAIN impressions
          THEN loc' = [loc EXCEPT ![p] = Returned(call, "no impression data")]
          ELSE IF \E d \in Dims :
                    /\ impressions[user_id].dims[d] # ""
                    /\ Contains(Lower(impressions[user_id].dims[d]), Lower(keyword))
          THEN loc' = [loc EXCEPT ![p] =
                         [Returned(call, "matches") EXCEPT
                            !.matched_id = user_id, !.ok = TRUE]]
          ELSE loc' = [loc EXCEPT ![p] = Returned(call, "keyword not found")]
    /\ UNCHANGED <<filter_mode, now, deliveries, message_weights, appended,
                   records, impressions, states>>

NextQuery ==
    \/ Tick
    \/ \E user_id \in Users : CreateByMerge(user_id)
    \/ \E user_id \in Users : CountMessage(user_id)
    \/ \E p \in Procs, user_id \in QueryIds : GetImpression(p, user_id)
    \/ \E p \in Procs, user_id \in QueryIds, keyword \in Keywords :
          SearchImpressions(p, user_id, keyword)
    \/ \E p \in Procs : CallReturn(p)

SpecQuery == InitService /\ [][NextQuery]_vars

----------------------------------------------------------------------------
(* Properties *)

Count(s, x) == Cardinality({i \in 1..Len(s) : s[i] = x})

\* the delivery passed the dedup check with a user id and a content
Passed(p) == loc[p].op = "handle" /\ Count(loc[p].steps, "evaluate_message") > 0

InFlight(p) ==
    pc[p] \in {"weight_llm", "impression_llm", "affection_llm", "finalize"}

\* the admission rule of the specification (section 4.1)
Admissible(mode, score) ==
    \/ mode = "disabled"
    \/ mode = "selective" /\ score >= 70
    \/ mode = "balanced" /\ score >= 40

C2_AffectionOnce ==
    \A p \in Procs :
        /\ Count(loc[p].steps, "update_affection") <= 1
        /\ (pc[p] = "done" /\ Passed(p))
              => Count(loc[p].steps, "update_affection") = 1

\* a delivery whose message was not admitted (its weight evaluation failed)
\* has returned with its one affection update made
C2_Witness ==
    \E p \in Procs :
        /\ pc[p] = "done" /\ Passed(p)
        /\ ~loc[p].weight_success
        /\ Count(loc[p].steps, "build_impression") = 0
        /\ Count(loc[p].steps, "update_affection") = 1

\* C3: build_impression is called only for a message whose evaluation
\* succeeded with a score admissible under the filter mode; a delivery of a
\* message that is not admitted returns with the eight dimensions and
\* message_count of the user as they were, and with its affection update made.
C3_MergeOnlyIfAdmitted ==
    \A p \in Procs :
        /\ Count(loc[p].steps, "build_impression") > 0
              => /\ loc[p].weight_success
                 /\ Admissible(filter_mode, loc[p].weight_score)
        /\ ( /\ pc[p] = "done" /\ Passed(p)
             /\ ~(loc[p].weight_success
                  /\ Admissible(filter_mode, loc[p].weight_score)) )
              => /\ ProfileView(impressions, loc[p].user_id) = loc[p].before
                 /\ Count(loc[p].steps, "update_affection") = 1

\* under selective a message scored 20 has been handled: the affection score
\* moved, the profile dimensions and message_count did not
C3_Witness ==
    \E p \in Procs :
        /\ pc[p] = "done" /\ Passed(p)
        /\ filter_mode = "selective"
        /\ loc[p].weight_success /\ loc[p].weight_score = 20
        /\ loc[p].affection_updated
        /\ loc[p].user_id \in DOMAIN impressions
        /\ impressions[loc[p].user_id].affection_score # DefaultAffectionScore
        /\ ProfileView(impressions, loc[p].user_id) = loc[p].before

C6_NeverRemerged ==
    \A p \in Procs :
        Count(loc[p].steps, "build_impression") > 0
            => /\ loc[p].message_id \notin loc[p].recorded_before
               /\ SeqToSet(loc[p].processed_ids) \cap loc[p].recorded_before = {}

\* C7: whatever the interleaving of record_processed_message calls, the
\* table holds at most one row per (user id, message id), and a call whose
\* insert met the unique index has returned False.
C7_AtMostOneRecord ==
    /\ \A user_id \in Users, message_id \in MessageIds :
          PairCount(records, user_id, message_id) <= 1
    /\ \A p \in Procs :
          (pc[p] = "returned" /\ Count(loc[p].steps, "IntegrityError") > 0)
              => loc[p].result = "False"

\* two calls for one pair both passed the existence check; the second
\* insert lost and returned False
C7_Witness ==
    \E p \in Procs :
        /\ pc[p] = "returned"
        /\ loc[p].steps = <<"not existing", "IntegrityError">>
        /\ loc[p].result = "False"
        /\ PairCount(records, loc[p].user_id, loc[p].message_id) = 1

C9_HistoryBounded ==
    \A user_id \in Users : Len(message_weights[user_id]) <= 100

\* more than 100 entries were appended for a user
C9_Witness ==
    \E user_id \in Users :
        /\ Len(appended[user_id]) > 100
        /\ Len(message_weights[user_id]) = 100

\* C10: after n appends for a user the history is the last min(n, 100)
\* appended entries, in the order of their appends.
C10_FifoEviction ==
    \A user_id \in Users :
        LET n == Len(appended[user_id])
            k == IF n < 100 THEN n ELSE 100
        IN /\ Len(message_weights[user_id]) = k
           /\ \A i \in 1..k :
                 message_weights[user_id][i] = appended[user_id][n - k + i]

\* 150 entries were appended for a user: the history starts at the 51st
C10_Witness ==
    \E user_id \in Users :
        /\ Len(appended[user_id]) = 150
        /\ Len(message_weights[user_id]) = 100
        /\ message_weights[user_id][1].message_id = 51
        /\ message_weights[user_id][100].message_id = 150

InHistory(weights, user_id, message_id) ==
    \E i \in 1..Len(weights[user_id]) :
        weights[user_id][i].message_id = message_id

\* the reply holds no numeric score: the call failed, the content is too
\* short, or neither the key-value token nor the JSON object gives a number
Unparseable(reply) ==
    \/ ~reply.success
    \/ reply.short
    \/ reply.kv.kind # "number" /\ reply.json.kind # "number"

DefaultScore(message) == IF ContentLen(message) > 20 THEN 50 ELSE 20
DefaultLevel(message) == IF ContentLen(message) > 20 THEN "medium" ELSE "low"

\* C11: a call of evaluate_message for a (user id, message id) that is in
\* the user's history returns at once, ok, with the score and level of a
\* stored entry of that message, and without a classifier call.
C11_CacheHit ==
    [][\A p \in Procs :
          (/\ pc[p] = "idle" /\ pc'[p] # "idle"
           /\ loc'[p].op = "evaluate_message"
           /\ InHistory(message_weights, loc'[p].user_id, loc'[p].message_id))
          => /\ pc'[p] = "returned"
             /\ loc'[p].weight_success
             /\ \E i \in 1..Len(message_weights[loc'[p].user_id]) :
                   LET r == message_weights[loc'[p].user_id][i]
                   IN /\ r.message_id = loc'[p].message_id
                      /\ r.weight_score = loc'[p].weight_score
                      /\ r.weight_level = loc'[p].weight_level
             /\ Count(loc'[p].steps, "generate_weight_evaluation") = 0]_vars

\* a call answered from the history with the score and level the
\* classifier had given: 75 and "low"
C11_Witness ==
    \E p \in Procs :
        /\ pc[p] = "returned" /\ loc[p].op = "evaluate_message"
        /\ Count(loc[p].steps, "generate_weight_evaluation") = 0
        /\ loc[p].weight_success
        /\ loc[p].weight_score = 75 /\ loc[p].weight_level = "low"
        /\ InHistory(message_weights, loc[p].user_id, loc[p].message_id)

\* C12 as stated: every call of evaluate_message that returns ok, cache hit
\* or fresh evaluation, appends one entry for its message to the history.
C12_EveryCallAppends ==
    [][\A p \in Procs :
          (/\ pc[p] # "returned" /\ pc'[p] = "returned"
           /\ loc'[p].op = "evaluate_message" /\ loc'[p].weight_success)
          => LET u == loc'[p].user_id
             IN /\ Len(appended'[u]) = Len(appended[u]) + 1
                /\ appended'[u][Len(appended'[u])].message_id
                      = loc'[p].message_id]_vars

\* C12 amended: a call that returns ok after a classifier call appends one
\* entry with its message id and the returned score and level to the
\* bounded history; a call answered from the history leaves the history as
\* it was.
C12_FreshCallAppends ==
    [][\A p \in Procs :
          (/\ pc[p] # "returned" /\ pc'[p] = "returned"
           /\ loc'[p].op = "evaluate_message" /\ loc'[p].weight_success)
          => LET u == loc'[p].user_id
                 n == Len(appended'[u])
             IN IF pc[p] = "weight_llm"
                THEN /\ n = Len(appended[u]) + 1
                     /\ appended'[u][n].message_id = loc'[p].message_id
                     /\ appended'[u][n].weight_score = loc'[p].weight_score
                     /\ appended'[u][n].weight_level = loc'[p].weight_level
                     /\ Len(message_weights'[u]) > 0
                     /\ Len(message_weights'[u]) <= 100
                     /\ message_weights'[u][Len(message_weights'[u])]
                           = appended'[u][n]
                ELSE /\ message_weights' = message_weights
                     /\ appended' = appended]_vars

\* a fresh evaluation that fell back to the default was appended, and a
\* later call for the same message was answered from the history
C12_Witness ==
    \E p \in Procs, q \in Procs :
        /\ pc[p] = "returned" /\ loc[p].op = "evaluate_message"
        /\ Count(loc[p].steps, "generate_weight_evaluation") = 1
        /\ loc[p].weight_success /\ loc[p].weight_score = 50
        /\ pc[q] = "returned" /\ loc[q].op = "evaluate_message"
        /\ Count(loc[q].steps, "generate_weight_evaluation") = 0
        /\ loc[q].user_id = loc[p].user_id
        /\ loc[q].message_id = loc[p].message_id
        /\ Len(message_weights[loc[p].user_id]) = 1
        /\ message_weights[loc[p].user_id][1].message_id = loc[p].message_id

\* C13: when the classifier call fails or its reply holds no numeric score,
\* evaluate_message returns ok with 50/medium for a message longer than 20
\* characters and 20/low otherwise, and that result is the newest entry of
\* the history.
C13_FallbackOnUnparseable ==
    [][\A p \in Procs, reply \in EvalReplies :
          (Unparseable(reply) /\ EvalAnswer(p, reply))
          => LET l == loc'[p]
                 h == message_weights'[l.user_id]
             IN /\ l.weight_success
                /\ l.weight_score = DefaultScore(l.message_content)
                /\ l.weight_level = DefaultLevel(l.message_content)
                /\ Len(h) > 0
                /\ h[Len(h)].message_id = l.message_id
                /\ h[Len(h)].weight_score = l.weight_score]_vars

\* C14: the admission decision for an evaluated message is the rule of the
\* filter mode applied to the score: disabled admits every score, selective
\* admits from 70, balanced from 40; so 75 is admitted under every mode, 50
\* under balanced and disabled only, 20 under disabled only, whatever level
\* the classifier reported.
C14_AdmissionRule ==
    \A p \in Procs :
        (pc[p] = "returned" /\ loc[p].op = "evaluate_message"
         /\ loc[p].weight_success)
        => LET should == loc[p].should_update_impression
               score == loc[p].weight_score
           IN /\ should <=> Admissible(filter_mode, score)
              /\ score = 75 => should
              /\ score = 50 => (should <=> filter_mode \in {"balanced", "disabled"})
              /\ score = 20 => (should <=> filter_mode = "disabled")

\* a message scored 75 and reported as "low" is admitted under selective
C14_Witness ==
    \E p \in Procs :
        /\ pc[p] = "returned" /\ loc[p].op = "evaluate_message"
        /\ filter_mode = "selective"
        /\ loc[p].weight_success
        /\ loc[p].weight_score = 75 /\ loc[p].weight_level = "low"
        /\ loc[p].should_update_impression

\* the entries of a user's history that the admission rule admits
Admitted(user_id) ==
    {i \in 1..Len(message_weights[user_id]) :
        Admissible(filter_mode, message_weights[user_id][i].weight_score)}

\* the history positions the returned ids stand for, in the order returned
PositionsOf(user_id, ids) ==
    [k \in 1..Len(ids) |->
        CHOOSE i \in 1..Len(message_weights[user_id]) :
            message_weights[user_id][i].message_id = ids[k]]

\* ids are the min(n, 10) newest entries of `among`, newest first
NewestOf(user_id, ids, among) ==
    LET h == message_weights[user_id]
        m == IF Cardinality(among) < 10 THEN Cardinality(among) ELSE 10
    IN /\ Len(ids) = m
       /\ \A k \in 1..Len(ids) :
             \E i \in among : h[i].message_id = ids[k]
       /\ LET pos == PositionsOf(user_id, ids)
          IN /\ \A k \in 1..Len(ids), j \in 1..Len(ids) :
                   k < j => h[pos[k]].timestamp > h[pos[j]].timestamp
             /\ \A i \in among :
                   \/ \E k \in 1..Len(ids) : pos[k] = i
                   \/ \A k \in 1..Len(ids) :
                         h[pos[k]].timestamp > h[i].timestamp

\* C15 as stated: under every filter mode the ids that get_filtered_messages
\* returns are the at most 10 newest history entries that the admission
\* decision admits, newest first.
C15_SameRuleEveryMode ==
    \A p \in Procs :
        (pc[p] = "returned" /\ loc[p].op = "get_filtered_messages")
        => NewestOf(loc[p].user_id, loc[p].processed_ids,
                    Admitted(loc[p].user_id))

\* C15 amended: under selective and balanced the returned ids are the at
\* most 10 newest history entries that the admission decision admits,
\* newest first; under disabled, where every score is admitted, nothing is
\* returned.
C15_SameRuleUnlessDisabled ==
    \A p \in Procs :
        (pc[p] = "returned" /\ loc[p].op = "get_filtered_messages")
        => IF filter_mode = "disabled"
           THEN loc[p].processed_ids = <<>>
           ELSE NewestOf(loc[p].user_id, loc[p].processed_ids,
                         Admitted(loc[p].user_id))

\* a history of 40 entries under balanced: more than 10 qualify, the 10
\* newest of them are returned and the entry scored 20 is passed over
C15_Witness ==
    \E p \in Procs :
        /\ pc[p] = "returned" /\ loc[p].op = "get_filtered_messages"
        /\ filter_mode = "balanced"
        /\ Len(appended[loc[p].user_id]) = 40
        /\ Len(loc[p].processed_ids) = 10
        /\ loc[p].processed_ids[1] = 40
        /\ loc[p].processed_ids[2] = 39
        /\ loc[p].processed_ids[3] = 37
        /\ Cardinality(Admitted(loc[p].user_id)) > 10

\* C16: get_filtered_messages returns no id when the filter mode is disabled
\* or when no entry of the user's history qualifies; and in disabled mode a
\* completed run of handle records its triggering message and nothing else.
C16_EmptyContext ==
    [][\A p \in Procs :
          LET l == loc'[p]
              u == l.user_id
          IN /\ (/\ Count(loc[p].steps, "get_filtered_messages") = 0
                 /\ Count(l.steps, "get_filtered_messages") = 1
                 /\ \/ filter_mode = "disabled"
                    \/ \A i \in 1..Len(message_weights'[u]) :
                          ~Admissible(filter_mode,
                                      message_weights'[u][i].weight_score))
                => l.processed_ids = <<>>
             /\ (filter_mode = "disabled" /\ pc[p] = "finalize"
                 /\ pc'[p] = "done")
                => /\ l.processed_ids = <<>>
                   /\ Len(records') = Len(records) + 1
                   /\ RecordedIds(records', u)
                         = RecordedIds(records, u) \cup {l.message_id}]_vars

\* in disabled mode the second message of a user was merged with an empty
\* context although the history held both messages
C16_Witness ==
    \E p \in Procs :
        /\ pc[p] = "done" /\ loc[p].result = "complete"
        /\ filter_mode = "disabled"
        /\ Count(loc[p].steps, "build_impression") = 1
        /\ Len(message_weights[loc[p].user_id]) = 2
        /\ loc[p].processed_ids = <<>>
        /\ RecordedIds(records, loc[p].user_id) = {1, 2}

\* the reply is a failure of the call, or a text in which no dimension has
\* a value other than the empty string and the sentinel, and which has no
\* IMPRESSION: token
Unmergeable(reply) ==
    \/ ~reply.success
    \/ /\ \A d \in DOMAIN reply.fields : reply.fields[d] \in {"", Sentinel}
       /\ ~reply.has_impression

\* C17: a successful merge writes the dimensions of the parsed mapping and
\* leaves each of the eight dimensions that the mapping lacks with the
\* value it had before.
C17_AbsentDimsKept ==
    [][\A p \in Procs, reply \in MergeReplies :
          (MergeAnswer(p, reply) /\ loc'[p].impression_updated)
          => LET u == loc[p].user_id
                 data == _parse_impression_response(reply)
                 old == ProfileView(impressions, u).dims
                 new == ProfileView(impressions', u).dims
             IN \A d \in Dims :
                   new[d] = IF d \in DOMAIN data THEN data[d] ELSE old[d]]_vars

\* C18: build_impression returns ok=false when the classifier call fails or
\* the parse yields an empty mapping, and then the table of profiles is as it
\* was: no row changed, none created.
C18_FailedMergeChangesNothing ==
    [][\A p \in Procs, reply \in MergeReplies :
          (MergeAnswer(p, reply) /\ Unmergeable(reply))
          => /\ ~loc'[p].impression_updated
             /\ loc'[p].result = "False"
             /\ impressions' = impressions]_vars

\* a merge failed for a user whose profile an earlier merge had written,
\* at a later time, and the profile still carries the earlier timestamps
C18_Witness ==
    \E p \in Procs :
        /\ pc[p] = "returned" /\ loc[p].op = "build_impression"
        /\ loc[p].result = "False"
        /\ now = 2
        /\ loc[p].user_id \in DOMAIN impressions
        /\ impressions[loc[p].user_id].message_count = 1
        /\ impressions[loc[p].user_id].updated_at = 1
        /\ \E q \in Procs :
              /\ pc[q] = "returned" /\ loc[q].result = "False"
              /\ loc[q].user_id \notin DOMAIN impressions

\* message_count of a user, 0 while the user has no profile
MessageCount(table, user_id) == ProfileView(table, user_id).message_count

\* the deliveries whose merge for the user succeeded in this step
MergedNow(user_id) ==
    {p \in Procs : /\ pc[p] = "impression_llm" /\ pc'[p] # "impression_llm"
                   /\ loc[p].user_id = user_id
                   /\ loc'[p].impression_updated}

\* C19: a successful merge leaves the user with a profile whose
\* message_count is one more than before (1 if the merge created it), and no
\* other step changes message_count: it never decreases and counts the
\* successful merges of the user.
C19_CountsMerges ==
    [][\A user_id \in Users :
          /\ MessageCount(impressions', user_id)
               = MessageCount(impressions, user_id)
                 + Cardinality(MergedNow(user_id))
          /\ MergedNow(user_id) # {} => user_id \in DOMAIN impressions']_vars

\* the second successful merge of a user has just returned
C19_Witness ==
    \E p \in Procs :
        /\ pc[p] = "affection_llm" /\ loc[p].impression_updated
        /\ loc[p].before.message_count = 1
        /\ impressions[loc[p].user_id].message_count = 2

\* the counters of a user, 0 while the user has no state row
Counters(table, user_id) == GetOrCreate(table, user_id, NewState)

C24_SentinelNeverStored ==
    [][\A p \in Procs, reply \in MergeReplies :
          MergeAnswer(p, reply)
          => LET data == _parse_impression_response(reply)
             IN /\ \A d \in DOMAIN reply.fields :
                      reply.fields[d] \notin {"", Sentinel}
                         => d \in DOMAIN data /\ data[d] = reply.fields[d]
                /\ \A d \in DOMAIN data : data[d] # Sentinel
                /\ \A u \in DOMAIN impressions', d \in Dims :
                      impressions'[u].dims[d] # Sentinel]_vars

\* C30: every score that evaluate_message returns with ok=true and every
\* score in a history lies in [0,100], and every such level is one of high,
\* medium and low.
C30_ScoreAndLevelInRange ==
    /\ \A p \in Procs :
          (pc[p] = "returned" /\ loc[p].op = "evaluate_message"
           /\ loc[p].weight_success)
          => /\ 0 <= loc[p].weight_score /\ loc[p].weight_score <= 100
             /\ loc[p].weight_level \in {"high", "medium", "low"}
    /\ \A u \in Users : \A i \in 1..Len(message_weights[u]) :
          /\ 0 <= message_weights[u][i].weight_score
          /\ message_weights[u][i].weight_score <= 100
          /\ message_weights[u][i].weight_level \in {"high", "medium", "low"}

\* the position of the first call of x in a log of calls, 0 if there is none
First(s, x) ==
    IF \E i \in 1..Len(s) : s[i] = x
    THEN CHOOSE i \in 1..Len(s) : s[i] = x /\ \A j \in 1..(i - 1) : s[j] # x
    ELSE 0

\* both calls were made, every a before every b
Ordered(s, a, b) ==
    /\ First(s, a) > 0 /\ First(s, b) > 0
    /\ \A i \in 1..Len(s), j \in 1..Len(s) : (s[i] = a /\ s[j] = b) => i < j

\* a completed run made its calls up to the affection update in the order
\* dedup check, evaluation, context selection with the admission decision,
\* profile merge (exactly if admitted), affection update
OrderedUpToAffection(l) ==
    /\ Ordered(l.steps, "is_message_processed", "evaluate_message")
    /\ Ordered(l.steps, "evaluate_message", "get_filtered_messages")
    /\ Ordered(l.steps, "get_filtered_messages", "update_affection")
    /\ IF l.should_update_impression
       THEN /\ Ordered(l.steps, "get_filtered_messages", "build_impression")
            /\ Ordered(l.steps, "build_impression", "update_affection")
       ELSE First(l.steps, "build_impression") = 0

\* C23 as stated: the steps of a processed message come in the order dedup
\* check, evaluation, admission, profile merge (if admitted), affection
\* update, recording of the processed message, update of the state counters.
C23_RecordThenCounters ==
    \A p \in Procs :
        (pc[p] = "done" /\ loc[p].result = "complete")
        => /\ OrderedUpToAffection(loc[p])
           /\ Ordered(loc[p].steps, "update_affection",
                      "record_processed_message")
           /\ Ordered(loc[p].steps, "record_processed_message",
                      "update_message_state")

\* C23 amended: the order is dedup check, evaluation, admission, profile
\* merge (if admitted), affection update, update of the state counters, and
\* only then the recording of the processed message.
C23_CountersThenRecord ==
    \A p \in Procs :
        (pc[p] = "done" /\ loc[p].result = "complete")
        => /\ OrderedUpToAffection(loc[p])
           /\ Ordered(loc[p].steps, "update_affection",
                      "update_message_state")
           /\ Ordered(loc[p].steps, "update_message_state",
                      "record_processed_message")

\* a run that merged the profile, updated the affection score, counted the
\* message and recorded it has returned
C23_Witness ==
    \E p \in Procs :
        /\ pc[p] = "done" /\ loc[p].result = "complete"
        /\ loc[p].impression_updated /\ loc[p].affection_updated
        /\ Len(loc[p].steps) = 8
        /\ loc[p].steps[7] = "update_message_state"
        /\ loc[p].steps[8] = "record_processed_message"

\* the score a profile has before an update: its own, or that of a new row
ScoreBefore(user_id) ==
    IF user_id \in DOMAIN impressions
    THEN impressions[user_id].affection_score
    ELSE DefaultAffectionScore

\* the step writes the profile of user_id
Written(user_id) ==
    \/ user_id \notin DOMAIN impressions
    \/ impressions'[user_id] # impressions[user_id]

\* old + delta, brought back into [0,100] (tenths)
Bounded(raw) == IF raw < 0 THEN 0 ELSE IF raw > 1000 THEN 1000 ELSE raw

\* C21: every profile has its affection score within [0,100]; an affection
\* update sets the score to clamp(old + delta, 0, 100) for the delta of the
\* classified label, and a profile created by the merge starts at 50.0.
C21_ScoreClamped ==
    [][/\ \A u \in DOMAIN impressions' :
            /\ impressions'[u].affection_score >= 0
            /\ impressions'[u].affection_score <= 1000
       /\ \A u \in DOMAIN impressions' :
            /\ \A label \in {"friendly", "neutral", "negative"} :
                 (Written(u) /\ UpdateAffection(u, label))
                 => impressions'[u].affection_score
                      = Bounded(ScoreBefore(u) + Increment(label))
            /\ (Written(u) /\ CreateByMerge(u))
               => impressions'[u].affection_score = 500]_vars

\* a profile created by the merge has been driven down to 0 and one created
\* by an affection update up to 100
C21_Witness ==
    \E u, v \in DOMAIN impressions :
        /\ impressions[u].message_count = 1
        /\ impressions[u].affection_score = 0
        /\ impressions[v].message_count = 0
        /\ impressions[v].affection_score = 1000

\* the label of the band a score lies in, boundaries included
BandLabel(score) ==
    IF 0 <= score /\ score <= 200 THEN "hostile"
    ELSE IF 201 <= score /\ score <= 400 THEN "cold"
    ELSE IF 401 <= score /\ score <= 600 THEN "neutral"
    ELSE IF 601 <= score /\ score <= 800 THEN "friendly"
    ELSE IF 801 <= score /\ score <= 1000 THEN "close"
    ELSE "none"

C25_FailsFastUnconfigured ==
    \A p \in Procs :
        (loc[p].op = "generate"
         /\ (loc[p].config.api_key \in {Missing, ""}
             \/ loc[p].config.model_id \in {Missing, ""}))
        => /\ pc[p] = "returned"
           /\ ~loc[p].ok
           /\ loc[p].result = "LLM not configured"
           /\ loc[p].steps = <<>>

\* a call with an empty api_key and a usable model_id has returned
C25_Witness ==
    \E p \in Procs :
        /\ pc[p] = "returned" /\ loc[p].op = "generate"
        /\ loc[p].config.api_key = "" /\ loc[p].config.model_id = "set"
        /\ ~loc[p].ok /\ loc[p].steps = <<>>

C28_OwnProfileOnly ==
    [][\A p \in Procs, u \in Users :
          /\ GetImpression(p, u)
             => /\ u \notin DOMAIN impressions
                   => loc'[p].result = "no impression data"
                /\ u \in DOMAIN impressions
                   => /\ loc'[p].result = "impression"
                      /\ loc'[p].matched_id = u
          /\ \A keyword \in Keywords \ {""} :
                SearchImpressions(p, u, keyword)
                => /\ u \notin DOMAIN impressions
                      => loc'[p].result = "no impression data"
                   /\ u \in DOMAIN impressions
                      => loc'[p].result \in {"matches", "keyword not found"}]_vars

\* the dimensions whose token carries a value other than the sentinel
Extracted(reply) ==
    {d \in DOMAIN reply.fields : reply.fields[d] \notin {"", Sentinel}}

\* C31: the IMPRESSION: fallback is consulted only when the per-field
\* extraction yields no field; with at least one extracted dimension the
\* merge writes the extracted dimensions only, and when neither strategy
\* yields anything build_impression fails and writes nothing.
C31_FallbackOnlyWhenNoField ==
    [][\A p \in Procs, reply \in MergeReplies :
          (MergeAnswer(p, reply) /\ reply.success)
          => LET u == loc[p].user_id
             IN IF Extracted(reply) # {}
                THEN /\ loc'[p].impression_updated
                     /\ \A d \in Dims :
                          impressions'[u].dims[d]
                            = IF d \in Extracted(reply)
                              THEN reply.fields[d] ELSE ""
                ELSE IF reply.has_impression
                THEN /\ loc'[p].impression_updated
                     /\ \A d \in Dims :
                          impressions'[u].dims[d]
                            = IF d = "interests_hobbies"
                              THEN reply.impression ELSE ""
                ELSE /\ ~loc'[p].impression_updated
                     /\ impressions' = impressions]_vars

\* a merge answered with one extracted dimension and an IMPRESSION: token
\* has returned, and one answered with an IMPRESSION: token only has filled
\* interests_hobbies of the other user
C31_Witness ==
    \E p \in Procs, v \in DOMAIN impressions :
        /\ pc[p] = "returned" /\ loc[p].impression_updated
        /\ loc[p].user_id \in DOMAIN impressions
        /\ impressions[loc[p].user_id].dims["values_attitudes"] = "honest"
        /\ impressions[loc[p].user_id].dims["interests_hobbies"] = ""
        /\ impressions[v].dims["interests_hobbies"] = "likes music"

\* C32: impression_update_count grows for a message only if the merge of
\* that message changed the stored profile; a merge whose write failed is
\* not counted.
C32_CountedOnlyIfStored ==
    [][\A p \in Procs :
          (Finalize(p)
           /\ Counters(states', loc[p].user_id).impression_update_count
                > Counters(states, loc[p].user_id).impression_update_count)
          => MessageCount(impressions, loc[p].user_id)
               > loc[p].before.message_count]_vars

\* C33: for every user total_messages = processed_messages, and neither
\* impression_update_count nor affection_update_count exceeds
\* processed_messages.
C33_CountersConsistent ==
    \A user_id \in DOMAIN states :
        /\ states[user_id].total_messages = states[user_id].processed_messages
        /\ states[user_id].impression_update_count
             <= states[user_id].processed_messages
        /\ states[user_id].affection_update_count
             <= states[user_id].processed_messages

\* two messages of a user are counted, one with a merge and both with an
\* affection update
C33_Witness ==
    \E user_id \in DOMAIN states :
        /\ states[user_id].total_messages = 2
        /\ states[user_id].processed_messages = 2
        /\ states[user_id].impression_update_count = 1
        /\ states[user_id].affection_update_count = 2

\* C34: the history of a user never holds two entries with the same message
\* id, also when two evaluate_message calls for the same user and message
\* wait for the classifier at the same time.
C34_NoDuplicateIds ==
    \A user_id \in Users :
        \A i, j \in 1..Len(message_weights[user_id]) :
            message_weights[user_id][i].message_id
              = message_weights[user_id][j].message_id
            => i = j

\* C35: an event without an extractable user id or with empty extracted
\* content makes handle return a status message; no classifier is called
\* and the history, the profiles, the message states and the processed
\* records stay as they are.
C35_RejectedEventChangesNothing ==
    [][\A p \in Procs, user_id \in Users \cup {""}, content \in Contents \cup {""} :
          ((user_id = "" \/ content = "") /\ pc[p] = "idle" /\ pc'[p] # "idle"
           /\ Receive(p, user_id, content))
          => /\ pc'[p] = "done"
             /\ loc'[p].result = IF user_id = "" THEN "no user id"
                                 ELSE "empty content"
             /\ loc'[p].steps = <<>>
             /\ message_weights' = message_weights
             /\ impressions' = impressions
             /\ states' = states
             /\ records' = records]_vars

\* an event with a user id and empty content was turned away while the
\* user has a history, a profile and a counted message
C35_Witness ==
    \E p \in Procs :
        /\ pc[p] = "done" /\ loc[p].op = "handle"
        /\ loc[p].result = "empty content" /\ loc[p].steps = <<>>
        /\ loc[p].user_id \in DOMAIN impressions
        /\ loc[p].user_id \in DOMAIN states
        /\ message_weights[loc[p].user_id] # <<>>

\* C36: a profile merge leaves affection_score and affection_level of an
\* existing profile as they are; it sets them, to 50.0 and the default
\* level, only when it creates the profile.
C36_MergeKeepsAffection ==
    [][\A p \in Procs :
          (pc[p] = "impression_llm" /\ pc'[p] # "impression_llm")
          => LET u == loc[p].user_id
             IN /\ u \in DOMAIN impressions
                   => /\ impressions'[u].affection_score
                           = impressions[u].affection_score
                      /\ impressions'[u].affection_level
                           = impressions[u].affection_level
                /\ (u \notin DOMAIN impressions /\ u \in DOMAIN impressions')
                   => /\ impressions'[u].affection_score = 500
                      /\ impressions'[u].affection_level = "neutral"]_vars

\* the second merge of a user has just been saved over a profile whose
\* score an affection update had raised to 52.0
C36_Witness ==
    \E p \in Procs :
        /\ pc[p] = "affection_llm" /\ loc[p].impression_updated
        /\ loc[p].user_id \in DOMAIN impressions
        /\ impressions[loc[p].user_id].message_count = 2
        /\ impressions[loc[p].user_id].affection_score = 520

\* what the four stores hold for a user
DataOf(weights, profiles, counters, rows, user_id) ==
    [history |-> weights[user_id],
     profile |-> IF user_id \in DOMAIN profiles
                 THEN <<profiles[user_id]>> ELSE <<>>,
     state |-> IF user_id \in DOMAIN counters
               THEN <<counters[user_id]>> ELSE <<>>,
     recorded |-> RecordedIds(rows, user_id)]

\* C37: processing a message of user u changes only u's data: in every step
\* the history, profile, message state and processed records of a user
\* change only if the step belongs to a run of handle for that user.
C37_OnlyOwnData ==
    [][\A v \in Users :
          DataOf(message_weights', impressions', states', records', v)
            # DataOf(message_weights, impressions, states, records, v)
          => \E p \in Procs :
                /\ loc[p].op = "handle" /\ loc[p].user_id = v
                /\ pc'[p] # pc[p]]_vars

\* a message of one user has been processed to the end while the other user
\* has a history, a profile and counters
C37_Witness ==
    \E p \in Procs, v \in Users :
        /\ pc[p] = "done" /\ loc[p].result = "complete"
        /\ loc[p].impression_updated
        /\ v # loc[p].user_id
        /\ v \in DOMAIN impressions /\ v \in DOMAIN states
        /\ message_weights[v] # <<>>

====
